---- MODULE Spec2Model ----
(***************************************************************************)
(* Inbound gateway core of the WristClaw channel plugin: the bounded       *)
(* containers (bounded-map.ts), the policy primitives (policy section of   *)
(* config.ts) and the account monitor (monitor.ts).                        *)
(*                                                                         *)
(* Specifications:                                                         *)
(*   SpecBoundedMap  - one BoundedMap driven by set / delete / clear       *)
(*   SpecBoundedSet  - one BoundedSet driven by add / delete / clear       *)
(*   SpecLimiter     - one SenderRateLimiter driven by isLimited / cleanup *)
(*   Spec            - one account monitor, its server and the process-    *)
(*                     wide cross-account dedup map                        *)
(*   SpecReconnect   - the monitor over runs of closes and reconnects      *)
(*   SpecMediaGroup  - one MediaGroupBuffer and its timers                 *)
(*   SpecMediaBurst  - one MediaGroupBuffer with the times of its timers   *)
(*   SpecVoiceWaiter - one VoiceWaiter and its timers                      *)
(*   SpecClaim       - monitors claiming ids through crossAccountDedup     *)
(*   SpecGate        - the gates of processMessage in two monitors         *)
(*   SpecFetch       - one fetchWithRetry call against a scripted server   *)
(*   SpecPolicy      - checkDmPolicy / checkGroupPolicy on drawn inputs    *)
(*   SpecMention     - detectAndStripMention on drawn inputs               *)
(*   SpecMediaUrl    - isSafeMediaUrl and the image download filter        *)
(*   SpecConversations - pairToChannel and groupChannelIds of a monitor    *)
(*   SpecInbound     - body, mention gate, history and dispatch of the     *)
(*                     events of one channel                               *)
(***************************************************************************)
EXTENDS Integers, Sequences, FiniteSets, TLC

VARIABLES
    \* ---- BoundedMap / BoundedSet under test (bounded-map.ts)
    bmap,        \* the BoundedMap object, or Thrown when the constructor threw
    bmLast,      \* the last call made on it: [op, key, value, before, ret]
    bset,        \* the BoundedSet object, or Thrown
    bsLast,      \* the last call made on it: [op, value, before, ret]
    \* ---- SenderRateLimiter under test (config.ts)
    limiter,     \* [max, windowMs, timestamps]
    rlNow,       \* Date.now()
    rlAccepted,  \* per sender, the timestamps of the calls that returned false
    rlLast,      \* the last call: [op, senderId, ret]
    \* ---- the account monitor (monitor.ts, monitorWristClawProvider)
    serverUrl,             \* account.serverUrl
    abortSignal,           \* abortSignal.aborted
    ws,                    \* the socket the closure variable ws holds, 0 = null
    stopped,
    backoff,
    reconnectTimer,        \* "null", or the state of the timer the handle names
    pingInterval,          \* TRUE while the ping interval is armed
    pongTimeout,           \* "null", or the state of the timer the handle names
    running,               \* "pending" until resolveRunning() is called
    botUserId,
    isFirstConnect,
    lastSeenMessageId,     \* channel -> message id, 0 = no entry
    processedMessageIds,   \* insertion-ordered set of message ids
    activeDispatches,
    mediaGroupBuffer,      \* insertion-ordered entries [key, event, extraMediaUrls]
    senderTimestamps,      \* senderId -> timestamps
    crossAccountProcessed, \* process-wide: insertion-ordered [id, ts]
    \* ---- the monitor's environment
    sockets,               \* every WebSocket created: [state, authed, user, subscribed]
    orphanReconnects,      \* armed reconnect timers no handle names any more
    authHandlers,          \* socket -> the authenticated handler it started
    runs,                  \* processMessage calls in flight, in start order
    srvMsgs,               \* the server's messages; a message's id is its index
    clock,                 \* Date.now()
    \* ---- observations
    dispatchLog,           \* agent dispatches started by this monitor: [id, bot]
    otherDispatches,       \* message id -> dispatches started by other accounts
    dropLog,               \* [id, why]: events the monitor dropped
    crossPruned,           \* message id -> times pruned from crossAccountProcessed
    procEvicted,           \* message id -> times evicted from processedMessageIds
    lim,                   \* the limits of the run explored, one of Scenarios
    history,               \* [closes, delay, auths, pongs]: the closes that
                           \* scheduled a reconnect since the last authenticated
                           \* event, the delay of the last one, the sockets
                           \* authenticated, the pong timeouts that are armed
    \* ---- the units checked on their own
    mediaGroups,           \* a MediaGroupBuffer, its timers and its onFlush calls
    voiceWaiters,          \* a VoiceWaiter, its timers and its promises
    claimed,               \* the policy module's crossAccountProcessed and its callers
    fetchCall,             \* one fetchWithRetry call: options, attempts, sleeps, result
    policyCall,            \* one checkDmPolicy / checkGroupPolicy call
    mentionCall,           \* one detectAndStripMention call
    mediaCall,             \* one image download: the urls given and the urls fetched
    convMaps,              \* pairToChannel and groupChannelIds of one monitor
    inbound                \* the body, mention and history steps of processMessage

containerVars == <<bmap, bmLast, bset, bsLast>>
limiterVars == <<limiter, rlNow, rlAccepted, rlLast>>
sessionVars ==
    <<serverUrl, abortSignal, ws, stopped, backoff, reconnectTimer, pingInterval,
      pongTimeout, running, botUserId, isFirstConnect, sockets, orphanReconnects,
      authHandlers, history>>
pipelineVars ==
    <<lastSeenMessageId, processedMessageIds, activeDispatches, mediaGroupBuffer,
      senderTimestamps, crossAccountProcessed, runs, dispatchLog, otherDispatches,
      dropLog, crossPruned, procEvicted>>
envVars == <<srvMsgs, clock, lim>>
monitorVars == <<sessionVars, pipelineVars, envVars>>
unitVars ==
    <<mediaGroups, voiceWaiters, claimed, fetchCall, policyCall, mentionCall,
      mediaCall, convMaps, inbound>>
vars == <<containerVars, limiterVars, monitorVars, unitVars>>

(***************************************************************************)
(* Sequence helpers                                                        *)
(***************************************************************************)
Range(s) == {s[i] : i \in 1..Len(s)}

Last(s) == s[Len(s)]

\* s is t with some prefix removed
IsSuffixOf(s, t) ==
    /\ Len(s) <= Len(t)
    /\ \A i \in 1..Len(s) : s[i] = t[Len(t) - Len(s) + i]

(***************************************************************************)
(* bounded-map.ts                                                          *)
(***************************************************************************)
\* The JavaScript value undefined: a legal key of a Map and member of a Set,
\* and also what an exhausted iterator's next().value yields.
Undefined == "undefined"

Keys == {"a", "b", "c", Undefined}
Values == {1, 2}

MaxCapacity == 2
Capacities == (-1)..MaxCapacity

Thrown == [thrown |-> "capacity must be >= 1"]
NoCall == [op |-> "none"]

\* Map: an insertion-ordered sequence of [k, v] entries with distinct keys.
MapKeys(map) == {map[i].k : i \in 1..Len(map)}

MapHas(map, key) == key \in MapKeys(map)

MapGet(map, key) ==
    IF MapHas(map, key)
    THEN map[CHOOSE i \in 1..Len(map) : map[i].k = key].v
    ELSE Undefined

\* Map.prototype.delete: the other entries keep their order
MapDelete(map, key) == SelectSeq(map, LAMBDA e : e.k # key)

\* Map.prototype.set: a present key keeps its position, a new key goes last
MapSet(map, key, value) ==
    IF MapHas(map, key)
    THEN [i \in 1..Len(map) |->
            IF map[i].k = key THEN [k |-> key, v |-> value] ELSE map[i]]
    ELSE Append(map, [k |-> key, v |-> value])

\* Set: an insertion-ordered sequence of distinct values.
SetDelete(set, value) == SelectSeq(set, LAMBDA x : x # value)

SetAdd(set, value) == IF value \in Range(set) THEN set ELSE Append(set, value)

\* constructor(capacity)
BoundedMapNew(capacity) ==
    IF capacity < 1 THEN Thrown ELSE [cap |-> capacity, map |-> <<>>]

\* private evict(): keys().next().value is the first key; the loop stops on
\* undefined, which is also what the key undefined itself reads as.
RECURSIVE BoundedMapEvict(_, _)
BoundedMapEvict(map, cap) ==
    IF Len(map) > cap
    THEN IF map[1].k # Undefined
         THEN BoundedMapEvict(MapDelete(map, map[1].k), cap)
         ELSE map
    ELSE map

\* set(key, value) without the delete: a present key keeps its position
BoundedMapSetInPlace(self, key, value) ==
    [self EXCEPT !.map = BoundedMapEvict(MapSet(self.map, key, value), self.cap)]

\* set(key, value)
BoundedMapSet(self, key, value) ==
    [self EXCEPT !.map =
        BoundedMapEvict(MapSet(MapDelete(self.map, key), key, value), self.cap)]

\* delete(key)
BoundedMapDelete(self, key) == [self EXCEPT !.map = MapDelete(self.map, key)]

\* clear()
BoundedMapClear(self) == [self EXCEPT !.map = <<>>]

BoundedSetNew(capacity) ==
    IF capacity < 1 THEN Thrown ELSE [cap |-> capacity, set |-> <<>>]

RECURSIVE BoundedSetEvict(_, _)
BoundedSetEvict(set, cap) ==
    IF Len(set) > cap
    THEN IF set[1] # Undefined
         THEN BoundedSetEvict(SetDelete(set, set[1]), cap)
         ELSE set
    ELSE set

\* add(value) that refreshes a present value instead of returning early
BoundedSetAddRefresh(self, value) ==
    [self |-> [self EXCEPT !.set =
                  BoundedSetEvict(Append(SetDelete(self.set, value), value), self.cap)],
     ret |-> value \notin Range(self.set)]

\* add(value): the object after the call and the value returned
BoundedSetAdd(self, value) ==
    IF value \in Range(self.set)
    THEN [self |-> self, ret |-> FALSE]
    ELSE [self |-> [self EXCEPT !.set =
                       BoundedSetEvict(SetAdd(self.set, value), self.cap)],
          ret |-> TRUE]

BoundedSetDelete(self, value) == [self EXCEPT !.set = SetDelete(self.set, value)]

BoundedSetClear(self) == [self EXCEPT !.set = <<>>]

(***************************************************************************)
(* SenderRateLimiter (config.ts)                                           *)
(***************************************************************************)
SenderIds == {"u1", "u2"}

\* The constructor arguments max and windowMs are drawn from Limits and
\* Windows (the defaults in the source are 10 and 60 000 ms); the clock runs
\* from 0 to MaxNow.
Limits == {1, 2}
Windows == {2, 3}
MaxNow == 4

\* ts.filter((t) => now - t < windowMs)
Fresh(ts, now, windowMs) == SelectSeq(ts, LAMBDA t : now - t < windowMs)

\* constructor(max, windowMs)
SenderRateLimiterNew(max, windowMs) ==
    [max |-> max, windowMs |-> windowMs, timestamps |-> <<>>]

\* timestamps is a Map senderId -> number[]: a function on the ids it holds
TsOf(timestamps, senderId) ==
    IF senderId \in DOMAIN timestamps THEN timestamps[senderId] ELSE <<>>

TsPut(timestamps, senderId, ts) ==
    [id \in (DOMAIN timestamps) \cup {senderId} |->
        IF id = senderId THEN ts ELSE timestamps[id]]

\* isLimited with > in place of >=
IsLimitedOffByOne(self, senderId, now) ==
    LET fresh == Fresh(TsOf(self.timestamps, senderId), now, self.windowMs)
    IN  IF Len(fresh) > self.max
        THEN [self |-> [self EXCEPT !.timestamps = TsPut(@, senderId, fresh)],
              ret |-> TRUE]
        ELSE [self |-> [self EXCEPT !.timestamps =
                           TsPut(@, senderId, Append(fresh, now))],
              ret |-> FALSE]

\* isLimited(senderId), with now = Date.now()
IsLimited(self, senderId, now) ==
    LET fresh == Fresh(TsOf(self.timestamps, senderId), now, self.windowMs)
    IN  IF Len(fresh) >= self.max
        THEN [self |-> [self EXCEPT !.timestamps = TsPut(@, senderId, fresh)],
              ret |-> TRUE]
        ELSE [self |-> [self EXCEPT !.timestamps =
                           TsPut(@, senderId, Append(fresh, now))],
              ret |-> FALSE]

\* cleanup()
Cleanup(self, now) ==
    LET keep == {id \in DOMAIN self.timestamps :
                    Fresh(self.timestamps[id], now, self.windowMs) # <<>>}
    IN  [self EXCEPT !.timestamps =
            [id \in keep |-> Fresh(self.timestamps[id], now, self.windowMs)]]

(***************************************************************************)
(* monitor.ts: constants and inputs                                        *)
(***************************************************************************)
MAX_CONCURRENT == 3
MAX_BACKOFF_MS == 60000
InitialBackoff == 1000

\* Capacities and durations of the source, scaled down so that eviction,
\* pruning and rate limiting happen within a few messages and clock ticks:
\* DEDUP_CAP is 1000, CROSS_ACCOUNT_DEDUP_CAP 2000, the pruning age 300 000 ms,
\* RATE_LIMIT_MAX 10 and RATE_LIMIT_WINDOW_MS 60 000 in monitor.ts.
DEDUP_CAP == 1
CROSS_ACCOUNT_DEDUP_CAP == 1
CROSS_ACCOUNT_MAX_AGE == 1
RATE_LIMIT_MAX == 3
RATE_LIMIT_WINDOW_MS == 2

VIA_TAG == "openclaw"
BotId == "bot"

\* GET /v1/conversations: the account's conversations, in response order
Conversations == <<"ch1", "ch2">>
ChannelIds == Range(Conversations)

\* account.serverUrl, as its scheme and the labels of its host name
\* ("localhost.evil" is <<"localhost", "evil">>)
TlsUrl == [scheme |-> "https", host |-> <<"srv">>]
ServerUrls ==
    {TlsUrl,
     [scheme |-> "http", host |-> <<"srv">>],
     [scheme |-> "http", host |-> <<"localhost">>],
     [scheme |-> "http", host |-> <<"127.0.0.1">>],
     [scheme |-> "http", host |-> <<"localhost", "evil">>]}
\* the server urls of the runs that are not about the url
UsualUrls == {TlsUrl, [scheme |-> "http", host |-> <<"srv">>]}

\* account.config of the monitored account
AccountConfig == [dmPolicy |-> "open", allowFrom |-> [has |-> FALSE, list |-> <<>>]]
OwnerUserId == ""

\* What the server's messages look like
TextFromUser == [author_id |-> "u1", via |-> "", content_type |-> "text"]
TextFromBot == [author_id |-> BotId, via |-> "", content_type |-> "text"]
TextViaOpenclaw == [author_id |-> "u1", via |-> VIA_TAG, content_type |-> "text"]
ImageFromUser == [author_id |-> "u1", via |-> "", content_type |-> "image"]
ImageFromOther == [author_id |-> "u2", via |-> "", content_type |-> "image"]
MsgKinds == {TextFromUser, TextFromBot, TextViaOpenclaw, ImageFromUser, ImageFromOther}
AuthorIds == {k.author_id : k \in MsgKinds}

\* /v1/me: user_id of the bot, possibly missing
MeResponses == {BotId, ""}

MaxMsgs == 3
MaxSockets == 3
MaxTime == 2

\* The runs explored.  Each bounds the environment: the messages stored
\* (how many, of which kinds, in which channels), the sockets created, the
\* clock, what /v1/me answers, how many accounts share the process,
\* whether the periodic timers fire and the abort signal is raised within
\* the span explored, the server urls configured, and whether the bot is
\* added to a group.
Scenarios ==
    {\* many messages of two senders on one connection
     [msgs |-> MaxMsgs + 1, socks |-> 1, time |-> 0,
      kinds |-> {TextFromUser, ImageFromOther}, chans |-> {"ch1"},
      me |-> {BotId}, timers |-> FALSE, accounts |-> 1, aborts |-> TRUE,
      urls |-> UsualUrls, joins |-> FALSE],
     \* texts and images of one sender on one connection
     [msgs |-> MaxMsgs, socks |-> 1, time |-> 0,
      kinds |-> {TextFromUser, ImageFromUser}, chans |-> {"ch1"},
      me |-> {BotId}, timers |-> FALSE, accounts |-> 1, aborts |-> TRUE,
      urls |-> UsualUrls, joins |-> FALSE],
     \* user messages across a reconnect, with a moving clock
     [msgs |-> MaxMsgs, socks |-> 2, time |-> MaxTime,
      kinds |-> {TextFromUser}, chans |-> {"ch1"},
      me |-> {BotId}, timers |-> FALSE, accounts |-> 1, aborts |-> FALSE,
      urls |-> UsualUrls, joins |-> FALSE],
     \* messages of every kind across a reconnect
     [msgs |-> 2, socks |-> 2, time |-> 0,
      kinds |-> {TextFromUser, TextFromBot, TextViaOpenclaw}, chans |-> {"ch1"},
      me |-> MeResponses, timers |-> FALSE, accounts |-> 1, aborts |-> TRUE,
      urls |-> UsualUrls, joins |-> FALSE],
     \* a second account, with a moving clock
     [msgs |-> 2, socks |-> 1, time |-> MaxTime,
      kinds |-> {TextFromUser}, chans |-> {"ch1"},
      me |-> {BotId}, timers |-> TRUE, accounts |-> 2, aborts |-> TRUE,
      urls |-> UsualUrls, joins |-> FALSE],
     \* several reconnects, with keepalive
     [msgs |-> 1, socks |-> MaxSockets, time |-> 0,
      kinds |-> {TextFromUser}, chans |-> ChannelIds,
      me |-> {BotId}, timers |-> TRUE, accounts |-> 1, aborts |-> TRUE,
      urls |-> UsualUrls, joins |-> FALSE],
     \* server urls of every kind, one message on one connection
     [msgs |-> 1, socks |-> 1, time |-> 0,
      kinds |-> {TextFromUser}, chans |-> {"ch1"},
      me |-> {BotId}, timers |-> FALSE, accounts |-> 1, aborts |-> TRUE,
      urls |-> ServerUrls, joins |-> TRUE]}

\* The runs explored for the reconnect loop and the catch-up after it.
MaxCloses == 8
ReconnectScenarios ==
    {\* sockets closing one after the other, /v1/me never answering
     [msgs |-> 0, socks |-> MaxCloses, time |-> 0,
      kinds |-> {}, chans |-> {}, me |-> {}, timers |-> FALSE,
      accounts |-> 1, aborts |-> FALSE, urls |-> {TlsUrl}, joins |-> FALSE],
     \* more messages than dispatches allowed, across a reconnect
     [msgs |-> MAX_CONCURRENT + 1, socks |-> 2, time |-> 0,
      kinds |-> {TextFromUser}, chans |-> {"ch1"}, me |-> {BotId},
      timers |-> FALSE, accounts |-> 1, aborts |-> FALSE, urls |-> {TlsUrl},
      joins |-> FALSE],
     \* the bot is added to a group, across a reconnect
     [msgs |-> 2, socks |-> 2, time |-> 0,
      kinds |-> {TextFromUser}, chans |-> {"ch1"}, me |-> {BotId},
      timers |-> FALSE, accounts |-> 1, aborts |-> FALSE, urls |-> {TlsUrl},
      joins |-> TRUE],
     \* two accounts, an image, the timers and the abort signal
     [msgs |-> 1, socks |-> 1, time |-> 1,
      kinds |-> {ImageFromUser}, chans |-> {"ch1"}, me |-> {BotId},
      timers |-> TRUE, accounts |-> 2, aborts |-> TRUE, urls |-> {TlsUrl},
      joins |-> FALSE]}

Min(a, b) == IF a < b THEN a ELSE b

RemoveAt(s, i) == SubSeq(s, 1, i - 1) \o SubSeq(s, i + 1, Len(s))

Bump(f, ids) == [x \in DOMAIN f |-> IF x \in ids THEN f[x] + 1 ELSE f[x]]

(***************************************************************************)
(* monitor.ts: policy steps of the pipeline                                *)
(***************************************************************************)
\* echo check without the sender comparison
IsEchoViaOnly(via, senderId, bot) == via = VIA_TAG

\* processMessage, echo prevention (and isEcho of the policy module)
IsEcho(via, senderId, bot) ==
    \/ via = VIA_TAG
    \/ bot # "" /\ senderId = bot

\* crossAccountDedup that records nothing
CrossAccountDedupNoRecord(cross, msgId, t) ==
    [cross |-> cross, ret |-> TRUE, pruned |-> {}]

\* crossAccountDedup(msgId) on the process-wide map, with t = Date.now()
CrossAccountDedup(cross, msgId, t) ==
    IF \E i \in 1..Len(cross) : cross[i].id = msgId
    THEN [cross |-> cross, ret |-> FALSE, pruned |-> {}]
    ELSE LET added == Append(cross, [id |-> msgId, ts |-> t])
             cutoff == t - CROSS_ACCOUNT_MAX_AGE
             kept == IF Len(added) > CROSS_ACCOUNT_DEDUP_CAP
                     THEN SelectSeq(added, LAMBDA e : ~(e.ts < cutoff))
                     ELSE added
         IN  [cross |-> kept, ret |-> TRUE,
              pruned |-> {e.id : e \in Range(added)} \ {e.id : e \in Range(kept)}]

\* iterations of: for (let i = 0; i < DEDUP_CAP * 0.2; i++)
DedupEvictCount == (DEDUP_CAP + 4) \div 5

\* markProcessed(msgId)
MarkProcessed(proc, msgId) ==
    IF msgId \in Range(proc)
    THEN [proc |-> proc, ret |-> FALSE, evicted |-> {}]
    ELSE LET added == Append(proc, msgId)
             n == IF Len(added) > DEDUP_CAP
                  THEN Min(DedupEvictCount, Len(added))
                  ELSE 0
         IN  [proc |-> SubSeq(added, n + 1, Len(added)), ret |-> TRUE,
              evicted |-> {added[i] : i \in 1..n}]

\* isRateLimited(senderId), with t = Date.now()
IsRateLimited(sts, senderId, t) ==
    LET timestamps == Fresh(sts[senderId], t, RATE_LIMIT_WINDOW_MS)
    IN  IF Len(timestamps) >= RATE_LIMIT_MAX
        THEN [sts |-> [sts EXCEPT ![senderId] = timestamps], ret |-> TRUE]
        ELSE [sts |-> [sts EXCEPT ![senderId] = Append(timestamps, t)], ret |-> FALSE]

\* the rateLimitCleanup interval's callback; a sender without timestamps
\* and a sender without an entry are the same to isRateLimited
RateLimitSweep(sts, t) ==
    [id \in DOMAIN sts |-> Fresh(sts[id], t, RATE_LIMIT_WINDOW_MS)]

\* Texts the policy code inspects character by character are sequences of
\* one-character strings.  String.prototype.trim, white space being " ":
RECURSIVE Trim(_)
Trim(s) ==
    IF s # <<>> /\ Head(s) = " " THEN Trim(Tail(s))
    ELSE IF s # <<>> /\ s[Len(s)] = " " THEN Trim(SubSeq(s, 1, Len(s) - 1))
    ELSE s

\* a list option of the account config: [has, list], has = FALSE when the
\* option is not set; an entry is the text String(id) gives
NoList == [has |-> FALSE, list |-> <<>>]

\* !allowFrom?.length
IsEmptyList(allowFrom) == ~allowFrom.has \/ allowFrom.list = <<>>

\* allowFrom.some((id) => String(id).trim() === "*")
IsWildcard(allowFrom) ==
    \E i \in 1..Len(allowFrom.list) : Trim(allowFrom.list[i]) = <<"*">>

\* allowFrom.some((id) => String(id) === senderId)
ListsSender(allowFrom, senderId) ==
    \E i \in 1..Len(allowFrom.list) : allowFrom.list[i] = senderId

\* value ?? fallback
OrElse(value, fallback) == IF value = Undefined THEN fallback ELSE value

\* checkDmPolicy with an empty allowlist letting everyone in
CheckDmPolicyEmptyAllows(config, senderId, isOwner) ==
    LET policy == OrElse(config.dmPolicy, "open")
    IN  IF isOwner THEN "allow"
        ELSE IF policy = "disabled" THEN "deny"
        ELSE IF policy = "open" THEN "allow"
        ELSE IF IsEmptyList(config.allowFrom) THEN "allow"
        ELSE IF IsWildcard(config.allowFrom) THEN "allow"
        ELSE IF ListsSender(config.allowFrom, senderId) THEN "allow"
        ELSE "deny"

\* checkDmPolicy(config, senderId, isOwner) of the policy module
CheckDmPolicy(config, senderId, isOwner) ==
    LET policy == OrElse(config.dmPolicy, "open")
    IN  IF isOwner THEN "allow"
        ELSE IF policy = "disabled" THEN "deny"
        ELSE IF policy = "open" THEN "allow"
        ELSE IF IsEmptyList(config.allowFrom) THEN "deny"
        ELSE IF IsWildcard(config.allowFrom) THEN "allow"
        ELSE IF ListsSender(config.allowFrom, senderId) THEN "allow"
        ELSE "deny"

\* checkGroupPolicy with the owner held to the allowlist like anyone else
CheckGroupPolicyOwnerListed(config, senderId, isOwner) ==
    LET policy == OrElse(config.groupPolicy, "mention")
    IN  IF policy = "disabled" THEN "deny"
        ELSE IF /\ ~IsEmptyList(config.groupAllowFrom)
                /\ ~IsWildcard(config.groupAllowFrom)
                /\ ~ListsSender(config.groupAllowFrom, senderId)
        THEN "deny"
        ELSE IF policy = "open" THEN "allow"
        ELSE "record-only"

\* checkGroupPolicy(config, senderId, isOwner) of the policy module
CheckGroupPolicy(config, senderId, isOwner) ==
    LET policy == OrElse(config.groupPolicy, "mention")
    IN  IF policy = "disabled" THEN "deny"
        ELSE IF /\ ~IsEmptyList(config.groupAllowFrom)
                /\ ~IsWildcard(config.groupAllowFrom) /\ ~isOwner
                /\ ~ListsSender(config.groupAllowFrom, senderId)
        THEN "deny"
        ELSE IF policy = "open" THEN "allow"
        ELSE "record-only"

\* processMessage, DM branch of the access gate: TRUE when the sender passes
DmPolicyPasses(config, senderId, isOwnerSender) ==
    LET dmPolicy == OrElse(config.dmPolicy, "open")
    IN  /\ ~(dmPolicy = "disabled" /\ ~isOwnerSender)
        /\ ~(/\ dmPolicy = "allowlist" /\ ~isOwnerSender
             /\ \/ IsEmptyList(config.allowFrom)
                \/ /\ ~IsWildcard(config.allowFrom)
                   /\ ~ListsSender(config.allowFrom, senderId))

\* the group branch with no exemption of the owner from the allowlist
GroupPolicyPassesNoOwner(config, senderId, isOwnerSender) ==
    LET groupPolicy == OrElse(config.groupPolicy, "mention")
    IN  /\ groupPolicy # "disabled"
        /\ ~(/\ ~IsEmptyList(config.groupAllowFrom)
             /\ ~IsWildcard(config.groupAllowFrom)
             /\ ~ListsSender(config.groupAllowFrom, senderId))

\* processMessage, group branch of the access gate: TRUE when the sender
\* passes on to the mention handling
GroupPolicyPasses(config, senderId, isOwnerSender) ==
    LET groupPolicy == OrElse(config.groupPolicy, "mention")
    IN  /\ groupPolicy # "disabled"
        /\ ~(/\ ~IsEmptyList(config.groupAllowFrom)
             /\ ~IsWildcard(config.groupAllowFrom) /\ ~isOwnerSender
             /\ ~ListsSender(config.groupAllowFrom, senderId))

\* the gate for the account the monitor runs (direct-message channels)
DmGate(senderId) ==
    DmPolicyPasses(AccountConfig, senderId,
                   OwnerUserId # "" /\ senderId = OwnerUserId)

(***************************************************************************)
(* monitor.ts: the synchronous code of the message paths.  It works on a   *)
(* record P of the monitor's mutable state, so that the loops of catch-up  *)
(* and stop can run it several times within one step:                      *)
(*   cross, proc, sts, last, mgb, act, runs  the monitor's variables       *)
(*   settled  processMessage calls that returned before their first await: *)
(*            their finally callbacks decrement the counter in microtasks, *)
(*            after the synchronous code of the step                       *)
(*   drops, pruned, evicted  observations                                  *)
(* An event is a record [message_id, channel_id, author_id, via,           *)
(* content_type].                                                          *)
(***************************************************************************)
Dropped(P, id, why) == [P EXCEPT !.drops = @ \cup {[id |-> id, why |-> why]}]

\* a call that returned early and whose finally callback never runs
SettledNoFinally(P, id, why) == Dropped(P, id, why)

Settled(P, id, why) == [Dropped(P, id, why) EXCEPT !.settled = @ + 1]

\* processMessage(ctx) up to its first await, with ctx.event = m,
\* ctx.botUserId = bot and ctx.extraMediaUrls = extra
ProcessMessage(P, m, bot, extra, t) ==
    LET id == m.message_id
        senderId == m.author_id
    IN  IF IsEcho(m.via, senderId, bot) THEN Settled(P, id, "echo")
        ELSE
        LET x == CrossAccountDedup(P.cross, id, t)
            P1 == [P EXCEPT !.cross = x.cross, !.pruned = Bump(@, x.pruned)]
        IN  IF ~x.ret THEN Settled(P1, id, "claimed")
            ELSE
            LET d == MarkProcessed(P1.proc, id)
                P2 == [P1 EXCEPT !.proc = d.proc, !.evicted = Bump(@, d.evicted)]
            IN  IF ~d.ret THEN Settled(P2, id, "processed")
                ELSE IF ~DmGate(senderId) THEN Settled(P2, id, "policy")
                ELSE
                LET r == IsRateLimited(P2.sts, senderId, t)
                IN  IF senderId # "" /\ r.ret
                    THEN Settled([P2 EXCEPT !.sts = r.sts], id, "rate")
                    ELSE [P2 EXCEPT
                            !.sts = IF senderId # "" THEN r.sts ELSE @,
                            !.runs = Append(@,
                               [id |-> id, bot |-> bot, extra |-> extra,
                                stage |-> IF m.content_type = "image"
                                          THEN "media" ELSE "record"])]

MgbIndex(mgb, key) ==
    IF \E i \in 1..Len(mgb) : mgb[i].key = key
    THEN CHOOSE i \in 1..Len(mgb) : mgb[i].key = key
    ELSE 0

\* flushMediaGroup without the concurrency check
FlushMediaGroupUnchecked(P, key, bot, t) ==
    LET i == MgbIndex(P.mgb, key)
    IN  IF i = 0 THEN P
        ELSE ProcessMessage([P EXCEPT !.mgb = RemoveAt(@, i), !.act = @ + 1],
                            P.mgb[i].event, bot, P.mgb[i].extraMediaUrls, t)

\* flushMediaGroup(key)
FlushMediaGroup(P, key, bot, t) ==
    LET i == MgbIndex(P.mgb, key)
        Q == [P EXCEPT !.mgb = RemoveAt(@, i)]
    IN  IF i = 0 THEN P
        ELSE IF Q.act >= MAX_CONCURRENT
        THEN Dropped(Q, P.mgb[i].event.message_id, "cap")
        ELSE ProcessMessage([Q EXCEPT !.act = @ + 1],
                            P.mgb[i].event, bot, P.mgb[i].extraMediaUrls, t)

\* bufferOrFlushImage(msg, channelId, wsChannel): the state after it and
\* whether it buffered the event
BufferOrFlushImage(P, m, channelId, bot, t) ==
    LET key == <<channelId, m.author_id>>
        i == MgbIndex(P.mgb, key)
    IN  IF m.content_type # "image"
        THEN [P |-> IF i # 0 THEN FlushMediaGroup(P, key, bot, t) ELSE P,
              buffered |-> FALSE]
        ELSE IF i # 0
        THEN [P |-> [P EXCEPT !.mgb[i].extraMediaUrls = Append(@, m.message_id)],
              buffered |-> TRUE]
        ELSE [P |-> [P EXCEPT !.mgb = Append(@,
                        [key |-> key, event |-> m, extraMediaUrls |-> <<>>])],
              buffered |-> TRUE]

\* handleWSEvent, message:new; the payload carries channel_id, which is
\* what extractChannelId returns
HandleMessageNew(P, m, bot, t) ==
    LET channelId == m.channel_id
        b == BufferOrFlushImage([P EXCEPT !.last[channelId] = m.message_id],
                                m, channelId, bot, t)
    IN  IF b.buffered THEN b.P
        ELSE IF b.P.act >= MAX_CONCURRENT THEN Dropped(b.P, m.message_id, "cap")
        ELSE ProcessMessage([b.P EXCEPT !.act = @ + 1], m, bot, <<>>, t)

\* handleWSEvent, authenticated: the loop over the missed messages of chId
RECURSIVE CatchUpLoop(_, _, _, _, _)
CatchUpLoop(P, missed, chId, bot, t) ==
    IF missed = <<>> THEN P
    ELSE
    LET m == Head(missed)
        P1 == [P EXCEPT !.last[chId] = m.message_id]
    IN  IF m.via = VIA_TAG \/ (bot # "" /\ m.author_id = bot)
        THEN CatchUpLoop(Dropped(P, m.message_id, "skipped"), Tail(missed), chId, bot, t)
        ELSE IF P1.act >= MAX_CONCURRENT
        THEN CatchUpLoop(Dropped(P1, m.message_id, "cap"), Tail(missed), chId, bot, t)
        ELSE CatchUpLoop(ProcessMessage([P1 EXCEPT !.act = @ + 1], m, bot, <<>>, t),
                         Tail(missed), chId, bot, t)

\* stop(): for (const [key, entry] of mediaGroupBuffer) flushMediaGroup(key)
RECURSIVE FlushAll(_, _, _, _)
FlushAll(P, keys, bot, t) ==
    IF keys = <<>> THEN P
    ELSE FlushAll(FlushMediaGroup(P, Head(keys), bot, t), Tail(keys), bot, t)

(***************************************************************************)
(* monitor.ts: the monitor's state                                         *)
(***************************************************************************)
MsgIds == 1..(MaxMsgs + 1)

\* a socket: its state, whether it received authenticated, whether the server
\* subscribed it to the bot's user channel and to the channels, and whether
\* a subscribe frame was written to it before it received authenticated
SocketNew ==
    [state |-> "connecting", authed |-> FALSE, user |-> FALSE,
     subscribed |-> FALSE, early |-> FALSE]

HandlerIdle == [stage |-> "none", idx |-> 0, lastId |-> 0, req |-> 0]

HandlerDone == [stage |-> "done", idx |-> 0, lastId |-> 0, req |-> 0]

\* the handler has caught the error of fetchBotIdentity or fetchConversations
HandlerFailed == [stage |-> "failed", idx |-> 0, lastId |-> 0, req |-> 0]

\* the closure variables of monitorWristClawProvider and the module-level
\* crossAccountProcessed, as declared
MonitorFresh ==
    /\ stopped = FALSE
    /\ backoff = InitialBackoff
    /\ reconnectTimer = "null"
    /\ pingInterval = FALSE
    /\ pongTimeout = "null"
    /\ botUserId = ""
    /\ isFirstConnect = TRUE
    /\ lastSeenMessageId = [c \in ChannelIds |-> 0]
    /\ processedMessageIds = <<>>
    /\ activeDispatches = 0
    /\ mediaGroupBuffer = <<>>
    /\ senderTimestamps = [a \in AuthorIds |-> <<>>]
    /\ crossAccountProcessed = <<>>
    /\ orphanReconnects = 0
    /\ runs = <<>>
    /\ srvMsgs = <<>>
    /\ clock = 0
    /\ dispatchLog = <<>>
    /\ otherDispatches = [id \in MsgIds |-> 0]
    /\ dropLog = {}
    /\ crossPruned = [id \in MsgIds |-> 0]
    /\ procEvicted = [id \in MsgIds |-> 0]
    /\ history = [closes |-> 0, delay |-> 0, auths |-> <<>>, pongs |-> 0]

\* no monitor: the state the container and limiter specifications keep
MonitorIdle ==
    /\ MonitorFresh
    /\ serverUrl = TlsUrl
    /\ abortSignal = TRUE
    /\ ws = 0
    /\ running = "resolved"
    /\ sockets = <<>>
    /\ authHandlers = <<>>
    /\ lim = [msgs |-> 0, socks |-> 0, time |-> 0, kinds |-> {}, chans |-> {},
              me |-> {}, timers |-> FALSE, accounts |-> 0, aborts |-> FALSE,
              urls |-> {}, joins |-> FALSE]

(***************************************************************************)
(* Containers: initial states and actions                                  *)
(***************************************************************************)
LimiterIdle ==
    /\ limiter = SenderRateLimiterNew(1, 1)
    /\ rlNow = 0
    /\ rlAccepted = [s \in SenderIds |-> <<>>]
    /\ rlLast = NoCall

ContainersIdle ==
    /\ bmap = Thrown
    /\ bmLast = NoCall
    /\ bset = Thrown
    /\ bsLast = NoCall

\* the units no specification below drives stay as they are
UnitsIdle ==
    /\ mediaGroups = NoCall
    /\ voiceWaiters = NoCall
    /\ claimed = NoCall
    /\ fetchCall = NoCall
    /\ policyCall = NoCall
    /\ mentionCall = NoCall
    /\ mediaCall = NoCall
    /\ convMaps = NoCall
    /\ inbound = NoCall

InitBoundedMap ==
    /\ \E capacity \in Capacities : bmap = BoundedMapNew(capacity)
    /\ bmLast = NoCall
    /\ bset = Thrown
    /\ bsLast = NoCall
    /\ LimiterIdle
    /\ MonitorIdle
    /\ UnitsIdle

InitBoundedSet ==
    /\ \E capacity \in Capacities : bset = BoundedSetNew(capacity)
    /\ bsLast = NoCall
    /\ bmap = Thrown
    /\ bmLast = NoCall
    /\ LimiterIdle
    /\ MonitorIdle
    /\ UnitsIdle

BMSet(key, value) ==
    /\ bmap # Thrown
    /\ bmap' = BoundedMapSet(bmap, key, value)
    /\ bmLast' = [op |-> "set", key |-> key, value |-> value,
                  before |-> bmap.map, ret |-> Undefined]
    /\ UNCHANGED <<bset, bsLast, limiterVars, monitorVars, unitVars>>

BMDelete(key) ==
    /\ bmap # Thrown
    /\ bmap' = BoundedMapDelete(bmap, key)
    /\ bmLast' = [op |-> "delete", key |-> key, value |-> Undefined,
                  before |-> bmap.map, ret |-> MapHas(bmap.map, key)]
    /\ UNCHANGED <<bset, bsLast, limiterVars, monitorVars, unitVars>>

BMClear ==
    /\ bmap # Thrown
    /\ bmap' = BoundedMapClear(bmap)
    /\ bmLast' = [op |-> "clear", key |-> Undefined, value |-> Undefined,
                  before |-> bmap.map, ret |-> Undefined]
    /\ UNCHANGED <<bset, bsLast, limiterVars, monitorVars, unitVars>>

BSAdd(value) ==
    /\ bset # Thrown
    /\ LET r == BoundedSetAdd(bset, value)
       IN  /\ bset' = r.self
           /\ bsLast' = [op |-> "add", value |-> value,
                         before |-> bset.set, ret |-> r.ret]
    /\ UNCHANGED <<bmap, bmLast, limiterVars, monitorVars, unitVars>>

BSDelete(value) ==
    /\ bset # Thrown
    /\ bset' = BoundedSetDelete(bset, value)
    /\ bsLast' = [op |-> "delete", value |-> value,
                  before |-> bset.set, ret |-> value \in Range(bset.set)]
    /\ UNCHANGED <<bmap, bmLast, limiterVars, monitorVars, unitVars>>

BSClear ==
    /\ bset # Thrown
    /\ bset' = BoundedSetClear(bset)
    /\ bsLast' = [op |-> "clear", value |-> Undefined,
                  before |-> bset.set, ret |-> Undefined]
    /\ UNCHANGED <<bmap, bmLast, limiterVars, monitorVars, unitVars>>

NextBoundedMap ==
    \/ \E key \in Keys, value \in Values : BMSet(key, value)
    \/ \E key \in Keys : BMDelete(key)
    \/ BMClear

NextBoundedSet ==
    \/ \E value \in Keys : BSAdd(value)
    \/ \E value \in Keys : BSDelete(value)
    \/ BSClear

SpecBoundedMap == InitBoundedMap /\ [][NextBoundedMap]_vars

SpecBoundedSet == InitBoundedSet /\ [][NextBoundedSet]_vars

(***************************************************************************)
(* Rate limiter: initial states and actions                                *)
(***************************************************************************)
InitLimiter ==
    /\ \E max \in Limits, windowMs \in Windows :
          limiter = SenderRateLimiterNew(max, windowMs)
    /\ rlNow = 0
    /\ rlAccepted = [s \in SenderIds |-> <<>>]
    /\ rlLast = NoCall
    /\ ContainersIdle
    /\ MonitorIdle
    /\ UnitsIdle

\* the clock advances between calls
RLTick ==
    /\ rlNow < MaxNow
    /\ rlNow' = rlNow + 1
    /\ rlLast' = [op |-> "tick"]
    /\ UNCHANGED <<limiter, rlAccepted, containerVars, monitorVars, unitVars>>

RLIsLimited(senderId) ==
    /\ LET r == IsLimited(limiter, senderId, rlNow)
       IN  /\ limiter' = r.self
           /\ rlAccepted' =
                 IF r.ret THEN rlAccepted
                 ELSE [rlAccepted EXCEPT ![senderId] = Append(@, rlNow)]
           /\ rlLast' = [op |-> "isLimited", senderId |-> senderId, ret |-> r.ret]
    /\ UNCHANGED <<rlNow, containerVars, monitorVars, unitVars>>

RLCleanup ==
    /\ limiter' = Cleanup(limiter, rlNow)
    /\ rlLast' = [op |-> "cleanup"]
    /\ UNCHANGED <<rlNow, rlAccepted, containerVars, monitorVars, unitVars>>

NextLimiter ==
    \/ RLTick
    \/ \E senderId \in SenderIds : RLIsLimited(senderId)
    \/ RLCleanup

SpecLimiter == InitLimiter /\ [][NextLimiter]_vars

(***************************************************************************)
(* Account monitor: initial states and actions                             *)
(***************************************************************************)
LocalHosts == {"localhost", "127.0.0.1", "[::1]"}

\* account.serverUrl.replace(/^http/, "ws") + "/v1/ws"
WsUrl(url) ==
    [scheme |-> IF url.scheme = "http" THEN "ws"
                ELSE IF url.scheme = "https" THEN "wss" ELSE url.scheme,
     host |-> url.host,
     path |-> "/v1/ws"]

\* /localhost|127\.0\.0\.1|\[::1\]/.test(wsUrl): one of the three texts occurs
\* somewhere in the url; the scheme and the path "/v1/ws" hold none
MentionsLocalHost(wsUrl) == \E i \in DOMAIN wsUrl.host : wsUrl.host[i] \in LocalHosts

\* connect(): wsUrl.startsWith("ws://") && !/localhost|127\.0\.0\.1|\[::1\]/.test(wsUrl)
Blocked(url) == WsUrl(url).scheme = "ws" /\ ~MentionsLocalHost(WsUrl(url))

\* The state when monitorWristClawProvider awaits runningPromise: connect()
\* has run once, on a signal that was aborted already or not.
Init ==
    /\ MonitorFresh
    /\ ContainersIdle
    /\ LimiterIdle
    /\ UnitsIdle
    /\ \E sc \in Scenarios, aborted \in BOOLEAN :
       \E url \in sc.urls :
          LET connects == ~aborted /\ ~Blocked(url)
          IN  /\ serverUrl = url
              /\ abortSignal = aborted
              /\ lim = sc
              /\ ws = IF connects THEN 1 ELSE 0
              /\ sockets = IF connects THEN <<SocketNew>> ELSE <<>>
              /\ authHandlers = IF connects THEN <<HandlerIdle>> ELSE <<>>
              /\ running = IF connects THEN "pending" ELSE "resolved"

\* the same, for the runs of the reconnect loop
InitReconnect ==
    /\ MonitorFresh
    /\ ContainersIdle
    /\ LimiterIdle
    /\ UnitsIdle
    /\ \E sc \in ReconnectScenarios, aborted \in BOOLEAN :
       \E url \in sc.urls :
          LET connects == ~aborted /\ ~Blocked(url)
          IN  /\ serverUrl = url
              /\ abortSignal = aborted
              /\ lim = sc
              /\ ws = IF connects THEN 1 ELSE 0
              /\ sockets = IF connects THEN <<SocketNew>> ELSE <<>>
              /\ authHandlers = IF connects THEN <<HandlerIdle>> ELSE <<>>
              /\ running = IF connects THEN "pending" ELSE "resolved"

PipelineState ==
    [cross |-> crossAccountProcessed, proc |-> processedMessageIds,
     sts |-> senderTimestamps, last |-> lastSeenMessageId,
     mgb |-> mediaGroupBuffer, act |-> activeDispatches, runs |-> runs,
     settled |-> 0, drops |-> dropLog, pruned |-> crossPruned,
     evicted |-> procEvicted]

\* the state a step leaves, once the finally callbacks of the calls that
\* returned early have run
Commit(P) ==
    /\ crossAccountProcessed' = P.cross
    /\ processedMessageIds' = P.proc
    /\ senderTimestamps' = P.sts
    /\ lastSeenMessageId' = P.last
    /\ mediaGroupBuffer' = P.mgb
    /\ activeDispatches' = P.act - P.settled
    /\ runs' = P.runs
    /\ dropLog' = P.drops
    /\ crossPruned' = P.pruned
    /\ procEvicted' = P.evicted
    /\ UNCHANGED <<dispatchLog, otherDispatches>>

\* the pong timeouts armed after clearTimeout(pongTimeout)
ClearPong == history.pongs - (IF pongTimeout = "armed" THEN 1 ELSE 0)

\* ws.close() on the socket the variable ws holds: an open socket starts the
\* closing handshake, a connecting one gives up the connection (error, then
\* close) and never opens
CloseCurrent(socks) ==
    IF ws # 0 /\ socks[ws].state = "open"
    THEN [socks EXCEPT ![ws].state = "closing"]
    ELSE IF ws # 0 /\ socks[ws].state = "connecting"
    THEN [socks EXCEPT ![ws].state = "errored"]
    ELSE socks

\* safeSend of the subscribe frames: sent on the socket ws holds if it is
\* OPEN; the server subscribes an authenticated socket
Subscribe(socks) ==
    IF ws # 0 /\ socks[ws].state = "open"
    THEN IF socks[ws].authed
         THEN [socks EXCEPT ![ws].subscribed = TRUE]
         ELSE [socks EXCEPT ![ws].early = TRUE]
    ELSE socks

\* safeSend of the subscribe frame for the channel user:<botUserId>
SubscribeUser(socks, bot) ==
    IF ws # 0 /\ socks[ws].state = "open"
    THEN IF socks[ws].authed
         THEN IF bot # "" THEN [socks EXCEPT ![ws].user = TRUE] ELSE socks
         ELSE [socks EXCEPT ![ws].early = TRUE]
    ELSE socks

\* connect()
Connect ==
    IF stopped \/ abortSignal \/ Blocked(serverUrl)
    THEN /\ running' = "resolved"
         /\ UNCHANGED <<ws, sockets, authHandlers>>
    ELSE /\ ws' = Len(sockets) + 1
         /\ sockets' = Append(sockets, SocketNew)
         /\ authHandlers' = Append(authHandlers, HandlerIdle)
         /\ UNCHANGED running

\* a reconnect timer fires: setTimeout(connect, backoff)
ReconnectFire ==
    /\ Len(sockets) < lim.socks
    /\ \E named \in BOOLEAN :
          IF named
          THEN /\ reconnectTimer = "armed"
               /\ reconnectTimer' = "fired"
               /\ UNCHANGED orphanReconnects
          ELSE /\ orphanReconnects > 0
               /\ orphanReconnects' = orphanReconnects - 1
               /\ UNCHANGED reconnectTimer
    /\ Connect
    /\ UNCHANGED <<history, serverUrl, abortSignal, stopped, backoff, pingInterval,
                   pongTimeout, botUserId, isFirstConnect>>
    /\ UNCHANGED <<pipelineVars, envVars, containerVars, limiterVars, unitVars>>

\* ws.on("open"): the auth frame is sent
OnOpen(s) ==
    /\ sockets[s].state = "connecting"
    /\ sockets' = [sockets EXCEPT ![s].state = "open"]
    /\ UNCHANGED <<history, serverUrl, abortSignal, ws, stopped, backoff, reconnectTimer,
                   pingInterval, pongTimeout, running, botUserId, isFirstConnect,
                   orphanReconnects, authHandlers>>
    /\ UNCHANGED <<pipelineVars, envVars, containerVars, limiterVars, unitVars>>

\* handleWSEvent, authenticated, up to its first await
OnAuthenticated(s) ==
    /\ sockets[s].state \in {"open", "closing"}
    /\ ~sockets[s].authed
    /\ sockets' = SubscribeUser([sockets EXCEPT ![s].authed = TRUE], botUserId)
    /\ backoff' = InitialBackoff
    /\ history' = [history EXCEPT !.closes = 0, !.auths = Append(@, s),
                                  !.pongs = ClearPong]
    /\ pingInterval' = TRUE
    /\ pongTimeout' = "null"
    /\ authHandlers' = [authHandlers EXCEPT ![s].stage =
                           IF botUserId = "" THEN "me" ELSE "convs"]
    /\ UNCHANGED <<serverUrl, abortSignal, ws, stopped, reconnectTimer, running,
                   botUserId, isFirstConnect, orphanReconnects>>
    /\ UNCHANGED <<pipelineVars, envVars, containerVars, limiterVars, unitVars>>

\* handleWSEvent, authenticated: fetchBotIdentity settles
ResumeMe(s, ok, userId) ==
    /\ authHandlers[s].stage = "me"
    /\ userId \in lim.me
    /\ IF ok
       THEN /\ botUserId' = userId
            /\ sockets' = SubscribeUser(sockets, userId)
            /\ authHandlers' = [authHandlers EXCEPT ![s].stage = "convs"]
       ELSE /\ authHandlers' = [authHandlers EXCEPT ![s] = HandlerFailed]
            /\ UNCHANGED <<botUserId, sockets>>
    /\ UNCHANGED <<history, serverUrl, abortSignal, ws, stopped, backoff, reconnectTimer,
                   pingInterval, pongTimeout, running, isFirstConnect,
                   orphanReconnects>>
    /\ UNCHANGED <<pipelineVars, envVars, containerVars, limiterVars, unitVars>>

\* the next conversation at or after index i that has a last seen message
NextCatchUp(last, i) ==
    IF \E j \in i..Len(Conversations) : last[Conversations[j]] # 0
    THEN CHOOSE j \in i..Len(Conversations) :
            /\ last[Conversations[j]] # 0
            /\ \A k \in i..(j - 1) : last[Conversations[k]] = 0
    ELSE 0

\* the handler's position after the catch-up loop moved on to index i:
\* awaiting fetchMissedMessages(chId, lastId), or finished
CatchUpFrom(last, i) ==
    LET j == NextCatchUp(last, i)
    IN  IF j = 0 THEN HandlerDone
        ELSE [stage |-> "catchup", idx |-> j,
              lastId |-> last[Conversations[j]], req |-> Len(srvMsgs)]

\* handleWSEvent, authenticated: fetchConversations settles
ResumeConvs(s, ok) ==
    /\ authHandlers[s].stage = "convs"
    /\ IF ~ok
       THEN /\ authHandlers' = [authHandlers EXCEPT ![s] = HandlerFailed]
            /\ UNCHANGED <<sockets, isFirstConnect>>
       ELSE /\ sockets' = Subscribe(sockets)
            /\ LET h == IF isFirstConnect THEN HandlerDone
                        ELSE CatchUpFrom(lastSeenMessageId, 1)
               IN  /\ authHandlers' = [authHandlers EXCEPT ![s] = h]
                   /\ isFirstConnect' = IF h.stage = "done" THEN FALSE
                                        ELSE isFirstConnect
    /\ UNCHANGED <<history, serverUrl, abortSignal, ws, stopped, backoff, reconnectTimer,
                   pingInterval, pongTimeout, running, botUserId, orphanReconnects>>
    /\ UNCHANGED <<pipelineVars, envVars, containerVars, limiterVars, unitVars>>

\* GET /v1/channels/chId/messages?after=lastId, answered when the server
\* held its first n messages
MissedMessages(chId, lastId, n) ==
    SelectSeq(SubSeq(srvMsgs, lastId + 1, n), LAMBDA m : m.channel_id = chId)

\* handleWSEvent, authenticated: fetchMissedMessages settles, the loop over
\* the missed messages runs and the next conversation is looked at
ResumeCatchUp(s, n, ok) ==
    /\ authHandlers[s].stage = "catchup"
    /\ n \in authHandlers[s].req..Len(srvMsgs)
    /\ LET h == authHandlers[s]
           chId == Conversations[h.idx]
           missed == IF ok THEN MissedMessages(chId, h.lastId, n) ELSE <<>>
           P == CatchUpLoop(PipelineState, missed, chId, botUserId, clock)
           next == CatchUpFrom(P.last, h.idx + 1)
       IN  /\ Commit(P)
           /\ authHandlers' = [authHandlers EXCEPT ![s] = next]
           /\ isFirstConnect' = IF next.stage = "done" THEN FALSE ELSE isFirstConnect
    /\ UNCHANGED <<history, serverUrl, abortSignal, ws, stopped, backoff, reconnectTimer,
                   pingInterval, pongTimeout, running, botUserId, sockets,
                   orphanReconnects>>
    /\ UNCHANGED <<envVars, containerVars, limiterVars, unitVars>>

\* handleWSEvent, group:member_added, pushed on the bot's user channel: the
\* group's channel is subscribed to
MemberAdded(s) ==
    /\ lim.joins
    /\ sockets[s].state \in {"open", "closing"}
    /\ sockets[s].user
    /\ sockets' = Subscribe(sockets)
    /\ sockets' # sockets
    /\ UNCHANGED <<history, serverUrl, abortSignal, ws, stopped, backoff, reconnectTimer,
                   pingInterval, pongTimeout, running, botUserId, isFirstConnect,
                   orphanReconnects, authHandlers>>
    /\ UNCHANGED <<pipelineVars, envVars, containerVars, limiterVars, unitVars>>

NewMessage(ch, kind) ==
    [message_id |-> Len(srvMsgs) + 1, channel_id |-> ch,
     author_id |-> kind.author_id, via |-> kind.via,
     content_type |-> kind.content_type]

\* the sockets the server pushes the channels' events to
Listening == {s \in 1..Len(sockets) :
                sockets[s].state \in {"open", "closing"} /\ sockets[s].subscribed}

\* the server stores a message and pushes it: handleWSEvent, message:new
MessageNew(ch, kind) ==
    /\ Len(srvMsgs) < lim.msgs
    /\ ch \in lim.chans
    /\ kind \in lim.kinds
    /\ Listening # {}
    /\ srvMsgs' = Append(srvMsgs, NewMessage(ch, kind))
    /\ Commit(HandleMessageNew(PipelineState, NewMessage(ch, kind), botUserId, clock))
    /\ UNCHANGED <<sessionVars, clock, lim, containerVars, limiterVars, unitVars>>

\* the server stores a message that no socket of the monitor receives
MessageMissed(ch, kind) ==
    /\ Len(srvMsgs) < lim.msgs
    /\ ch \in lim.chans
    /\ kind \in lim.kinds
    /\ \A s \in Listening : sockets[s].state = "closing"
    /\ srvMsgs' = Append(srvMsgs, NewMessage(ch, kind))
    /\ UNCHANGED <<sessionVars, pipelineVars, clock, lim, containerVars, limiterVars, unitVars>>

\* the timer of a media group fires: flushMediaGroup(key)
FlushTimerFire(i) ==
    /\ i \in 1..Len(mediaGroupBuffer)
    /\ Commit(FlushMediaGroup(PipelineState, mediaGroupBuffer[i].key, botUserId, clock))
    /\ UNCHANGED <<sessionVars, envVars, containerVars, limiterVars, unitVars>>

\* processMessage: the image downloads settle
RunMedia(i) ==
    /\ i \in 1..Len(runs)
    /\ runs[i].stage = "media"
    /\ runs' = [runs EXCEPT ![i].stage = "record"]
    /\ UNCHANGED <<lastSeenMessageId, processedMessageIds, activeDispatches,
                   mediaGroupBuffer, senderTimestamps, crossAccountProcessed,
                   dispatchLog, otherDispatches, dropLog, crossPruned, procEvicted>>
    /\ UNCHANGED <<sessionVars, envVars, containerVars, limiterVars, unitVars>>

\* processMessage: recordInboundSession settles; the agent dispatch starts,
\* or the error ends the call and its finally callback runs
RunRecord(i, ok) ==
    /\ i \in 1..Len(runs)
    /\ runs[i].stage = "record"
    /\ IF ok
       THEN /\ runs' = [runs EXCEPT ![i].stage = "dispatch"]
            /\ dispatchLog' = Append(dispatchLog, [id |-> runs[i].id, bot |-> runs[i].bot])
            /\ UNCHANGED activeDispatches
       ELSE /\ runs' = RemoveAt(runs, i)
            /\ activeDispatches' = activeDispatches - 1
            /\ UNCHANGED dispatchLog
    /\ UNCHANGED <<lastSeenMessageId, processedMessageIds, mediaGroupBuffer,
                   senderTimestamps, crossAccountProcessed, otherDispatches,
                   dropLog, crossPruned, procEvicted>>
    /\ UNCHANGED <<sessionVars, envVars, containerVars, limiterVars, unitVars>>

\* processMessage: the agent dispatch settles and the finally callback runs
RunDone(i) ==
    /\ i \in 1..Len(runs)
    /\ runs[i].stage = "dispatch"
    /\ runs' = RemoveAt(runs, i)
    /\ activeDispatches' = activeDispatches - 1
    /\ UNCHANGED <<lastSeenMessageId, processedMessageIds, mediaGroupBuffer,
                   senderTimestamps, crossAccountProcessed, dispatchLog,
                   otherDispatches, dropLog, crossPruned, procEvicted>>
    /\ UNCHANGED <<sessionVars, envVars, containerVars, limiterVars, unitVars>>

\* a ping callback that arms a pong timeout without clearing the last one
PingTickNoClear ==
    /\ lim.timers
    /\ pingInterval
    /\ pongTimeout' = "armed"
    /\ history' = [history EXCEPT !.pongs = @ + 1]
    /\ UNCHANGED <<serverUrl, abortSignal, ws, stopped, backoff, reconnectTimer,
                   pingInterval, running, botUserId, isFirstConnect, sockets,
                   orphanReconnects, authHandlers>>
    /\ UNCHANGED <<pipelineVars, envVars, containerVars, limiterVars, unitVars>>

\* the ping interval's callback
PingTick ==
    /\ lim.timers
    /\ pingInterval
    /\ pongTimeout' = "armed"
    /\ history' = [history EXCEPT !.pongs = ClearPong + 1]
    /\ UNCHANGED <<serverUrl, abortSignal, ws, stopped, backoff, reconnectTimer,
                   pingInterval, running, botUserId, isFirstConnect, sockets,
                   orphanReconnects, authHandlers>>
    /\ UNCHANGED <<pipelineVars, envVars, containerVars, limiterVars, unitVars>>

\* the pong timeout's callback
PongTimeoutFire ==
    /\ pongTimeout = "armed"
    /\ pongTimeout' = "fired"
    /\ history' = [history EXCEPT !.pongs = @ - 1]
    /\ sockets' = CloseCurrent(sockets)
    /\ UNCHANGED <<serverUrl, abortSignal, ws, stopped, backoff, reconnectTimer,
                   pingInterval, running, botUserId, isFirstConnect,
                   orphanReconnects, authHandlers>>
    /\ UNCHANGED <<pipelineVars, envVars, containerVars, limiterVars, unitVars>>

\* handleWSEvent, pong
OnPong(s) ==
    /\ sockets[s].state \in {"open", "closing"}
    /\ sockets[s].authed
    /\ pongTimeout # "null"
    /\ pongTimeout' = "null"
    /\ history' = [history EXCEPT !.pongs = ClearPong]
    /\ UNCHANGED <<serverUrl, abortSignal, ws, stopped, backoff, reconnectTimer,
                   pingInterval, running, botUserId, isFirstConnect, sockets,
                   orphanReconnects, authHandlers>>
    /\ UNCHANGED <<pipelineVars, envVars, containerVars, limiterVars, unitVars>>

\* an error handler that also schedules a reconnect
OnErrorReconnects(s) ==
    /\ sockets[s].state \in {"connecting", "open"}
    /\ sockets' = [sockets EXCEPT ![s].state = "errored"]
    /\ orphanReconnects' = orphanReconnects + (IF reconnectTimer = "armed" THEN 1 ELSE 0)
    /\ reconnectTimer' = "armed"
    /\ UNCHANGED <<history, serverUrl, abortSignal, ws, stopped, backoff, pingInterval,
                   pongTimeout, running, botUserId, isFirstConnect, authHandlers>>
    /\ UNCHANGED <<pipelineVars, envVars, containerVars, limiterVars, unitVars>>

\* ws.on("error"): logs; the socket's close event follows
OnError(s) ==
    /\ sockets[s].state \in {"connecting", "open"}
    /\ sockets' = [sockets EXCEPT ![s].state = "errored"]
    /\ UNCHANGED <<history, serverUrl, abortSignal, ws, stopped, backoff, reconnectTimer,
                   pingInterval, pongTimeout, running, botUserId, isFirstConnect,
                   orphanReconnects, authHandlers>>
    /\ UNCHANGED <<pipelineVars, envVars, containerVars, limiterVars, unitVars>>

\* a close handler that does not look at stopped or the abort signal
OnCloseAlways(s) ==
    /\ sockets[s].state \in {"open", "closing", "errored"}
    /\ sockets' = [sockets EXCEPT ![s].state = "closed"]
    /\ pingInterval' = FALSE
    /\ pongTimeout' = "null"
    /\ orphanReconnects' = orphanReconnects + (IF reconnectTimer = "armed" THEN 1 ELSE 0)
    /\ reconnectTimer' = "armed"
    /\ history' = [history EXCEPT !.closes = @ + 1, !.delay = backoff,
                                  !.pongs = ClearPong]
    /\ backoff' = Min(backoff * 2, MAX_BACKOFF_MS)
    /\ UNCHANGED <<serverUrl, abortSignal, ws, stopped, running, botUserId,
                   isFirstConnect, authHandlers>>
    /\ UNCHANGED <<pipelineVars, envVars, containerVars, limiterVars, unitVars>>

\* a close handler that doubles the backoff without the cap
OnCloseUncapped(s) ==
    /\ sockets[s].state \in {"open", "closing", "errored"}
    /\ sockets' = [sockets EXCEPT ![s].state = "closed"]
    /\ pingInterval' = FALSE
    /\ pongTimeout' = "null"
    /\ IF stopped \/ abortSignal
       THEN /\ running' = "resolved"
            /\ history' = [history EXCEPT !.pongs = ClearPong]
            /\ UNCHANGED <<reconnectTimer, orphanReconnects, backoff>>
       ELSE /\ orphanReconnects' = orphanReconnects
                                     + (IF reconnectTimer = "armed" THEN 1 ELSE 0)
            /\ reconnectTimer' = "armed"
            /\ history' = [history EXCEPT !.closes = @ + 1, !.delay = backoff,
                                  !.pongs = ClearPong]
            /\ backoff' = backoff * 2
            /\ UNCHANGED running
    /\ UNCHANGED <<serverUrl, abortSignal, ws, stopped, botUserId, isFirstConnect,
                   authHandlers>>
    /\ UNCHANGED <<pipelineVars, envVars, containerVars, limiterVars, unitVars>>

\* ws.on("close")
OnClose(s) ==
    /\ sockets[s].state \in {"open", "closing", "errored"}
    /\ sockets' = [sockets EXCEPT ![s].state = "closed"]
    /\ pingInterval' = FALSE
    /\ pongTimeout' = "null"
    /\ IF stopped \/ abortSignal
       THEN /\ running' = "resolved"
            /\ history' = [history EXCEPT !.pongs = ClearPong]
            /\ UNCHANGED <<reconnectTimer, orphanReconnects, backoff>>
       ELSE /\ orphanReconnects' = orphanReconnects
                                     + (IF reconnectTimer = "armed" THEN 1 ELSE 0)
            /\ reconnectTimer' = "armed"
            /\ history' = [history EXCEPT !.closes = @ + 1, !.delay = backoff,
                                  !.pongs = ClearPong]
            /\ backoff' = Min(backoff * 2, MAX_BACKOFF_MS)
            /\ UNCHANGED running
    /\ UNCHANGED <<serverUrl, abortSignal, ws, stopped, botUserId, isFirstConnect,
                   authHandlers>>
    /\ UNCHANGED <<pipelineVars, envVars, containerVars, limiterVars, unitVars>>

\* stop()
Stop ==
    /\ stopped' = TRUE
    /\ Commit(FlushAll(PipelineState,
                       [i \in 1..Len(mediaGroupBuffer) |-> mediaGroupBuffer[i].key],
                       botUserId, clock))
    /\ pingInterval' = FALSE
    /\ pongTimeout' = "null"
    /\ reconnectTimer' = "null"
    /\ sockets' = CloseCurrent(sockets)
    /\ ws' = 0
    /\ running' = "resolved"
    /\ history' = [history EXCEPT !.pongs = ClearPong]
    /\ UNCHANGED <<serverUrl, backoff, botUserId, isFirstConnect, orphanReconnects,
                   authHandlers>>
    /\ UNCHANGED <<envVars, containerVars, limiterVars, unitVars>>

\* the abort signal fires: its listener is stop, once
Abort ==
    /\ lim.aborts
    /\ ~abortSignal
    /\ abortSignal' = TRUE
    /\ Stop

\* the caller uses the stop function it got when the run promise resolved
StopCall ==
    /\ running = "resolved"
    /\ UNCHANGED abortSignal
    /\ Stop

\* the rateLimitCleanup interval's callback; stop() clears the interval
RateLimitCleanup ==
    /\ lim.timers
    /\ ~stopped
    /\ senderTimestamps' = RateLimitSweep(senderTimestamps, clock)
    /\ UNCHANGED <<lastSeenMessageId, processedMessageIds, activeDispatches,
                   mediaGroupBuffer, crossAccountProcessed, runs, dispatchLog,
                   otherDispatches, dropLog, crossPruned, procEvicted>>
    /\ UNCHANGED <<sessionVars, envVars, containerVars, limiterVars, unitVars>>

\* Date.now() advances
Tick ==
    /\ clock < lim.time
    /\ clock' = clock + 1
    /\ UNCHANGED <<sessionVars, pipelineVars, srvMsgs, lim, containerVars, limiterVars, unitVars>>

\* another account's monitor runs processMessage on a message it received:
\* it claims the id in the shared map and, if the claim succeeds, dispatches
OtherAccountClaim(id) ==
    /\ lim.accounts > 1
    /\ id \in 1..Len(srvMsgs)
    /\ LET x == CrossAccountDedup(crossAccountProcessed, id, clock)
       IN  /\ crossAccountProcessed' = x.cross
           /\ crossPruned' = Bump(crossPruned, x.pruned)
           /\ otherDispatches' = IF x.ret THEN Bump(otherDispatches, {id})
                                 ELSE otherDispatches
    /\ UNCHANGED <<lastSeenMessageId, processedMessageIds, activeDispatches,
                   mediaGroupBuffer, senderTimestamps, runs, dispatchLog, dropLog,
                   procEvicted>>
    /\ UNCHANGED <<sessionVars, envVars, containerVars, limiterVars, unitVars>>

SocketIds == 1..Len(sockets)

Next ==
    \/ ReconnectFire
    \/ \E s \in SocketIds : OnOpen(s)
    \/ \E s \in SocketIds : OnAuthenticated(s)
    \/ \E s \in SocketIds, ok \in BOOLEAN, userId \in MeResponses : ResumeMe(s, ok, userId)
    \/ \E s \in SocketIds, ok \in BOOLEAN : ResumeConvs(s, ok)
    \/ \E s \in SocketIds, n \in 0..Len(srvMsgs), ok \in BOOLEAN : ResumeCatchUp(s, n, ok)
    \/ \E s \in SocketIds : MemberAdded(s)
    \/ \E ch \in ChannelIds, kind \in MsgKinds : MessageNew(ch, kind)
    \/ \E ch \in ChannelIds, kind \in MsgKinds : MessageMissed(ch, kind)
    \/ \E i \in 1..Len(mediaGroupBuffer) : FlushTimerFire(i)
    \/ \E i \in 1..Len(runs) : RunMedia(i)
    \/ \E i \in 1..Len(runs), ok \in BOOLEAN : RunRecord(i, ok)
    \/ \E i \in 1..Len(runs) : RunDone(i)
    \/ PingTick
    \/ PongTimeoutFire
    \/ \E s \in SocketIds : OnPong(s)
    \/ \E s \in SocketIds : OnError(s)
    \/ \E s \in SocketIds : OnClose(s)
    \/ Abort
    \/ StopCall
    \/ RateLimitCleanup
    \/ Tick
    \/ \E id \in 1..Len(srvMsgs) : OtherAccountClaim(id)

Spec == Init /\ [][Next]_vars

SpecReconnect == InitReconnect /\ [][Next]_vars

(***************************************************************************)
(* Properties                                                              *)
(***************************************************************************)

\* C4: for every sender, any max+1 calls of isLimited that returned false span
\* at least windowMs (no window [t, t+windowMs) holds more than max of them),
\* and whether a call is limited depends only on that sender's own accepted
\* calls: it returns true iff max of them are less than windowMs old.
C4_RateWindow ==
    /\ \A s \in SenderIds : \A i \in 1..Len(rlAccepted[s]) :
          i + limiter.max <= Len(rlAccepted[s]) =>
             rlAccepted[s][i + limiter.max] - rlAccepted[s][i] >= limiter.windowMs
    /\ rlLast.op = "isLimited" =>
          LET acc == rlAccepted[rlLast.senderId]
              before == IF rlLast.ret THEN acc ELSE SubSeq(acc, 1, Len(acc) - 1)
          IN  rlLast.ret =
                 (Cardinality({i \in 1..Len(before) :
                     rlNow - before[i] < limiter.windowMs}) >= limiter.max)

\* a sender was limited after the other sender had been accepted, and has
\* been accepted again once its window had moved on
C4_Witness ==
    /\ rlLast.op = "isLimited"
    /\ rlLast.ret = TRUE
    /\ Len(rlAccepted[rlLast.senderId]) > limiter.max
    /\ \E s \in SenderIds : s # rlLast.senderId /\ rlAccepted[s] # <<>>

\* C8: a BoundedMap or BoundedSet built with capacity C >= 1 holds at most C
\* entries after any sequence of set/add, delete and clear; a capacity below 1
\* is rejected by the constructor.
C8_CapacityBound ==
    /\ bmap # Thrown => bmap.cap >= 1 /\ Len(bmap.map) <= bmap.cap
    /\ bset # Thrown => bset.cap >= 1 /\ Len(bset.set) <= bset.cap

\* C9: after set(k, v) the key k is last in iteration order with get(k) = v,
\* whether or not it was present; the entries the call removed are the oldest
\* ones (what is left is a suffix of the old order with k moved to the end),
\* and k outlives every other key under eviction down to any capacity.
C9_SetMakesFreshest ==
    bmLast.op = "set" =>
        LET e == [k |-> bmLast.key, v |-> bmLast.value]
        IN  /\ bmap.map # <<>>
            /\ Last(bmap.map) = e
            /\ MapGet(bmap.map, bmLast.key) = bmLast.value
            /\ Cardinality(MapKeys(bmap.map)) = Len(bmap.map)
            /\ IsSuffixOf(bmap.map, Append(MapDelete(bmLast.before, bmLast.key), e))
            /\ \A c \in 1..bmap.cap :
                  LET m == BoundedMapEvict(bmap.map, c)
                  IN  MapHas(m, bmLast.key) /\ (Len(m) <= c => Last(m) = e)

\* the oldest key of a map holding several keys was set again
C9_Witness ==
    /\ bmLast.op = "set"
    /\ Len(bmLast.before) >= 2
    /\ bmLast.before[1].k = bmLast.key
    /\ bmLast.before[1].v # bmLast.value

\* C10: add(v) returns true iff v was not in the set; an add of a value that
\* is present returns false and leaves the members and their order as they
\* were (nothing is evicted, the value is not refreshed).
C10_AddReportsNew ==
    bsLast.op = "add" =>
        /\ bsLast.ret = (bsLast.value \notin Range(bsLast.before))
        /\ bsLast.ret = FALSE => bset.set = bsLast.before
        /\ bsLast.ret = TRUE => bsLast.value \in Range(bset.set)

\* the oldest value of a full set was added again
C10_Witness ==
    /\ bsLast.op = "add"
    /\ bsLast.ret = FALSE
    /\ Len(bsLast.before) = bset.cap
    /\ Len(bsLast.before) >= 2
    /\ bsLast.before[1] = bsLast.value

(***************************************************************************)
(* Properties of the account monitor                                       *)
(***************************************************************************)
\* agent dispatches this monitor started for message id
DispatchCount(id) ==
    Cardinality({i \in 1..Len(dispatchLog) : dispatchLog[i].id = id})

LiveSockets == {s \in 1..Len(sockets) : sockets[s].state \in {"connecting", "open"}}

\* C1: activeDispatches never exceeds MAX_CONCURRENT and equals the number
\* of pipeline runs in flight, whatever the interleaving of live events,
\* media-group flushes (timer, non-image arrival, stop) and catch-up
\* replays; a step starts a run only if the counter was below the cap.
C1_ConcurrencyCap ==
    /\ [](/\ activeDispatches \in 0..MAX_CONCURRENT
          /\ Len(runs) = activeDispatches)
    /\ [][Len(runs') > Len(runs) => activeDispatches < MAX_CONCURRENT]_vars

\* C1 witness: the cap is reached and an event was dropped because of it
C1_Witness ==
    /\ activeDispatches = MAX_CONCURRENT
    /\ \E d \in dropLog : d.why = "cap"

\* C2, as stated: every message id is dispatched at most once by this
\* account and at most once by all accounts together.
C2_AtMostOnce ==
    \A id \in MsgIds :
       /\ DispatchCount(id) <= 1
       /\ DispatchCount(id) + otherDispatches[id] <= 1

\* C2, as the code has it: a message id is dispatched at most once for each
\* time it is claimed in the cross-account map, and the map forgets a claim
\* only by pruning it; this account dispatches it again only if, in
\* addition, its own dedup set evicted the id.
C2_AtMostOncePerClaim ==
    \A id \in MsgIds :
       /\ DispatchCount(id) + otherDispatches[id] <= 1 + crossPruned[id]
       /\ DispatchCount(id) <= 1 + Min(crossPruned[id], procEvicted[id])

\* C2 witness: a message that was dispatched once arrived again and the
\* claim in the cross-account map stopped it
C2_Witness ==
    \E d \in dropLog :
       /\ d.why = "claimed"
       /\ DispatchCount(d.id) + otherDispatches[d.id] = 1
       /\ crossPruned[d.id] = 0

\* C3: no dispatched event carries via = "openclaw", and none is authored
\* by the bot user id the monitor knew when the event entered the pipeline.
C3_EchoNeverDispatched ==
    \A i \in 1..Len(dispatchLog) :
       LET m == srvMsgs[dispatchLog[i].id]
           bot == dispatchLog[i].bot
       IN  /\ m.via # VIA_TAG
           /\ bot # "" => m.author_id # bot

\* C3 witness: with the bot's id known, a message the bot authored without
\* the via tag was dropped as an echo, and another message was dispatched
C3_Witness ==
    /\ botUserId # ""
    /\ \E d \in dropLog :
          /\ d.why = "echo"
          /\ srvMsgs[d.id].via # VIA_TAG
          /\ srvMsgs[d.id].author_id = botUserId
    /\ dispatchLog # <<>>

\* C5, as stated: lastSeenMessageId of a channel is never rewritten to an
\* older message (message ids grow in the order the server stores them).
C5_LastSeenMonotonic ==
    [][\A c \in ChannelIds : lastSeenMessageId'[c] >= lastSeenMessageId[c]]_vars

\* C6: at most one socket is connecting or open; every socket but the
\* newest has closed, and a reconnect timer is armed only when all have.
C6_OneLiveSocket ==
    /\ Cardinality(LiveSockets) <= 1
    /\ \A s \in 1..(Len(sockets) - 1) : sockets[s].state = "closed"
    /\ orphanReconnects = 0
    /\ reconnectTimer = "armed" => \A s \in 1..Len(sockets) : sockets[s].state = "closed"

\* C6 witness: after the first socket ended (error, close or pong timeout)
\* the reconnect timer produced a second one, which is open
C6_Witness ==
    /\ Len(sockets) >= 2
    /\ sockets[Len(sockets)].state = "open"
    /\ reconnectTimer = "fired"

\* C7: once stop() ran or the signal is aborted, the run promise is
\* resolved and no reconnect timer is armed; no step that ends in such a
\* state creates a socket or arms a reconnect timer.
C7_StopIsFinal ==
    /\ []((stopped \/ abortSignal) =>
            /\ running = "resolved"
            /\ reconnectTimer # "armed"
            /\ orphanReconnects = 0)
    /\ [][(stopped' \/ abortSignal') =>
            /\ Len(sockets') = Len(sockets)
            /\ reconnectTimer' = "armed" => reconnectTimer = "armed"
            /\ orphanReconnects' <= orphanReconnects]_vars

\* C7 witness: the monitor was stopped after a reconnect and the close
\* event of its last socket has arrived since
C7_Witness ==
    /\ stopped
    /\ Len(sockets) >= 2
    /\ sockets[Len(sockets)].state = "closed"
    /\ sockets[Len(sockets)].authed
    /\ reconnectTimer = "null"
    /\ running = "resolved"

(***************************************************************************)
(* MediaGroupBuffer (monitor.ts): a Map of entries, one debounce timer per *)
(* entry.  B is [buffer, timers, flushed]: buffer is the Map in insertion  *)
(* order, timers the handles setTimeout returned that are still armed,     *)
(* each with the key its callback closes over, flushed the entries handed  *)
(* to onFlush in call order.  An entry's event is the number of the        *)
(* tryBuffer call that created it.                                         *)
(***************************************************************************)
MaxCalls == 4
MediaKeys == {"ch1:u1", "ch1:u2"}

MediaGroupNew == [buffer |-> <<>>, timers |-> {}, flushed |-> <<>>]

MediaGroupIndex(B, key) ==
    IF \E i \in 1..Len(B.buffer) : B.buffer[i].key = key
    THEN CHOOSE i \in 1..Len(B.buffer) : B.buffer[i].key = key
    ELSE 0

\* clearTimeout(handle)
ClearTimeout(timers, handle) == {t \in timers : t.handle # handle}

\* flush(key) with the entry left in the Map
MediaGroupFlushKeep(B, key) ==
    LET i == MediaGroupIndex(B, key)
    IN  IF i = 0 THEN B
        ELSE [B EXCEPT !.flushed = Append(@, B.buffer[i])]

\* flush(key)
MediaGroupFlush(B, key) ==
    LET i == MediaGroupIndex(B, key)
    IN  IF i = 0 THEN B
        ELSE [B EXCEPT !.buffer = RemoveAt(@, i),
                       !.flushed = Append(@, B.buffer[i])]

\* tryBuffer whose non-image branch flushes without clearTimeout
MediaGroupTryBufferKeepTimer(B, key, event, mediaUrl, isImage, handle) ==
    LET i == MediaGroupIndex(B, key)
        timer == [handle |-> handle, key |-> key]
    IN  IF ~isImage
        THEN [self |-> MediaGroupFlush(B, key), ret |-> FALSE]
        ELSE IF i # 0
        THEN [self |-> [B EXCEPT
                  !.timers = ClearTimeout(@, B.buffer[i].timer) \cup {timer},
                  !.buffer[i].extraMediaUrls =
                      IF mediaUrl THEN Append(@, event) ELSE @,
                  !.buffer[i].timer = handle],
              ret |-> TRUE]
        ELSE [self |-> [B EXCEPT
                  !.timers = @ \cup {timer},
                  !.buffer = Append(@, [key |-> key, event |-> event,
                                        extraMediaUrls |-> <<>>,
                                        timer |-> handle])],
              ret |-> TRUE]

\* tryBuffer(key, event, channelId, wsChannel, mediaUrl, isImage); handle is
\* what setTimeout returns if the call arms a timer
MediaGroupTryBuffer(B, key, event, mediaUrl, isImage, handle) ==
    LET i == MediaGroupIndex(B, key)
        timer == [handle |-> handle, key |-> key]
    IN  IF ~isImage
        THEN [self |-> IF i = 0 THEN B
                       ELSE MediaGroupFlush(
                              [B EXCEPT !.timers = ClearTimeout(@, B.buffer[i].timer)],
                              key),
              ret |-> FALSE]
        ELSE IF i # 0
        THEN [self |-> [B EXCEPT
                  !.timers = ClearTimeout(@, B.buffer[i].timer) \cup {timer},
                  !.buffer[i].extraMediaUrls =
                      IF mediaUrl THEN Append(@, event) ELSE @,
                  !.buffer[i].timer = handle],
              ret |-> TRUE]
        ELSE [self |-> [B EXCEPT
                  !.timers = @ \cup {timer},
                  !.buffer = Append(@, [key |-> key, event |-> event,
                                        extraMediaUrls |-> <<>>,
                                        timer |-> handle])],
              ret |-> TRUE]

\* dispose(): the loop over the Map, entry by entry
RECURSIVE MediaGroupDispose(_)
MediaGroupDispose(B) ==
    IF B.buffer = <<>> THEN B
    ELSE LET entry == Head(B.buffer)
         IN  MediaGroupDispose(
               [B EXCEPT !.timers = ClearTimeout(@, entry.timer),
                         !.buffer = Tail(@),
                         !.flushed = Append(@, entry)])

\* get pending
MediaGroupPending(B) == Len(B.buffer)

\* mediaGroups is [self, calls, created, disposed, last]: the buffer, the
\* number of tryBuffer calls made, the events of the entries created, whether
\* dispose() ran and no entry was created since, and the last call: its
\* arguments and result, and the entries pending, the timers armed and the
\* number of onFlush calls made before it
InitMediaGroup ==
    /\ mediaGroups = [self |-> MediaGroupNew, calls |-> 0, created |-> {},
                      disposed |-> FALSE,
                      last |-> [op |-> "new", key |-> "", isImage |-> FALSE,
                                ret |-> FALSE, before |-> <<>>, timers |-> {},
                                flushed |-> 0]]
    /\ voiceWaiters = NoCall
    /\ claimed = NoCall
    /\ fetchCall = NoCall
    /\ policyCall = NoCall
    /\ mentionCall = NoCall
    /\ mediaCall = NoCall
    /\ convMaps = NoCall
    /\ inbound = NoCall
    /\ ContainersIdle
    /\ LimiterIdle
    /\ MonitorIdle

\* the call being made, with the buffer as it is before it
MGLast(op, key, isImage, ret) ==
    [op |-> op, key |-> key, isImage |-> isImage, ret |-> ret,
     before |-> mediaGroups.self.buffer, timers |-> mediaGroups.self.timers,
     flushed |-> Len(mediaGroups.self.flushed)]

MGTryBuffer(key, mediaUrl, isImage) ==
    /\ mediaGroups.calls < MaxCalls
    /\ LET event == mediaGroups.calls + 1
           r == MediaGroupTryBuffer(mediaGroups.self, key, event, mediaUrl,
                                    isImage, event)
           creates == isImage /\ MediaGroupIndex(mediaGroups.self, key) = 0
       IN  mediaGroups' =
              [self |-> r.self, calls |-> event,
               created |-> mediaGroups.created \cup
                             (IF creates THEN {event} ELSE {}),
               disposed |-> mediaGroups.disposed /\ ~creates,
               last |-> MGLast("tryBuffer", key, isImage, r.ret)]
    /\ UNCHANGED <<containerVars, limiterVars, monitorVars, voiceWaiters, claimed,
                   fetchCall, policyCall, mentionCall, mediaCall, convMaps, inbound>>

MGFlush(key) ==
    /\ mediaGroups' =
          [mediaGroups EXCEPT
             !.self = MediaGroupFlush(@, key),
             !.last = MGLast("flush", key, FALSE, FALSE)]
    /\ UNCHANGED <<containerVars, limiterVars, monitorVars, voiceWaiters, claimed,
                   fetchCall, policyCall, mentionCall, mediaCall, convMaps, inbound>>

\* an armed timer expires: () => this.flush(key)
MGTimerFire(timer) ==
    /\ timer \in mediaGroups.self.timers
    /\ mediaGroups' =
          [mediaGroups EXCEPT
             !.self = MediaGroupFlush(
                        [@ EXCEPT !.timers = @ \ {timer}], timer.key),
             !.last = MGLast("timer", timer.key, FALSE, FALSE)]
    /\ UNCHANGED <<containerVars, limiterVars, monitorVars, voiceWaiters, claimed,
                   fetchCall, policyCall, mentionCall, mediaCall, convMaps, inbound>>

MGDispose ==
    /\ mediaGroups' =
          [mediaGroups EXCEPT
             !.self = MediaGroupDispose(@),
             !.disposed = TRUE,
             !.last = MGLast("dispose", "", FALSE, FALSE)]
    /\ UNCHANGED <<containerVars, limiterVars, monitorVars, voiceWaiters, claimed,
                   fetchCall, policyCall, mentionCall, mediaCall, convMaps, inbound>>

NextMediaGroup ==
    \/ \E key \in MediaKeys, mediaUrl \in BOOLEAN, isImage \in BOOLEAN :
          MGTryBuffer(key, mediaUrl, isImage)
    \/ \E key \in MediaKeys : MGFlush(key)
    \/ \E handle \in 1..MaxCalls, key \in MediaKeys :
          MGTimerFire([handle |-> handle, key |-> key])
    \/ MGDispose

SpecMediaGroup == InitMediaGroup /\ [][NextMediaGroup]_vars

\* how many times onFlush was called with the entry of this event
FlushCalls(event) ==
    Cardinality({i \in 1..Len(mediaGroups.self.flushed) :
                    mediaGroups.self.flushed[i].event = event})

ArmedHandles == {t.handle : t \in mediaGroups.self.timers}

LastIndex ==
    LET before == mediaGroups.last.before
    IN  IF \E i \in 1..Len(before) : before[i].key = mediaGroups.last.key
        THEN CHOOSE i \in 1..Len(before) : before[i].key = mediaGroups.last.key
        ELSE 0

\* C23: tryBuffer with a non-image returns false and leaves no entry for its
\* key.  An entry that was pending for the key has been handed to onFlush by
\* the call, once, and its timer is no longer armed; no entry is ever handed
\* to onFlush twice.  The entries of the other keys are pending as before,
\* and no other timer was armed or cancelled.
C23_NonImageFlushesItsKey ==
    /\ \A event \in mediaGroups.created : FlushCalls(event) <= 1
    /\ (mediaGroups.last.op = "tryBuffer" /\ ~mediaGroups.last.isImage) =>
          LET last == mediaGroups.last
              B == mediaGroups.self
              i == LastIndex
          IN  /\ last.ret = FALSE
              /\ \A j \in 1..Len(B.buffer) : B.buffer[j].key # last.key
              /\ IF i = 0
                 THEN /\ B.buffer = last.before
                      /\ B.timers = last.timers
                      /\ Len(B.flushed) = last.flushed
                 ELSE /\ B.buffer = RemoveAt(last.before, i)
                      /\ Len(B.flushed) = last.flushed + 1
                      /\ B.flushed[Len(B.flushed)] = last.before[i]
                      /\ FlushCalls(last.before[i].event) = 1
                      /\ last.before[i].timer \notin ArmedHandles
                      /\ B.timers =
                            {t \in last.timers : t.handle # last.before[i].timer}
              /\ \A j \in 1..Len(B.buffer) : B.buffer[j].timer \in ArmedHandles

\* a non-image has arrived for a key with a pending entry that holds an
\* extra url, while an entry of the other key was pending: the first was
\* flushed, the second is still pending
C23_Witness ==
    /\ mediaGroups.last.op = "tryBuffer"
    /\ ~mediaGroups.last.isImage
    /\ Len(mediaGroups.last.before) = 2
    /\ LastIndex # 0
    /\ mediaGroups.last.before[LastIndex].extraMediaUrls # <<>>
    /\ Len(mediaGroups.self.buffer) = 1
    /\ Len(mediaGroups.self.flushed) = 1

(***************************************************************************)
(* MediaGroupBuffer with a clock: when the timers expire.  mediaGroups is  *)
(* [self, calls, now, arrived, flushedAt]: the buffer, the number of       *)
(* tryBuffer calls made, the time, for every tryBuffer call its time, its  *)
(* arguments and the entry its image went into, and for every onFlush call *)
(* its time and what made it.                                              *)
(***************************************************************************)
MaxBurst == 3
MaxMediaTime == 4
\* delayMs: 800 in the source, scaled to the clock
DEFAULT_DELAY_MS == 2
\* the key of the burst
BurstKeys == {"ch1:u1"}

InitMediaBurst ==
    /\ mediaGroups = [self |-> MediaGroupNew, calls |-> 0, now |-> 0,
                      arrived |-> <<>>, flushedAt |-> <<>>]
    /\ voiceWaiters = NoCall
    /\ claimed = NoCall
    /\ fetchCall = NoCall
    /\ policyCall = NoCall
    /\ mentionCall = NoCall
    /\ mediaCall = NoCall
    /\ convMaps = NoCall
    /\ inbound = NoCall
    /\ ContainersIdle
    /\ LimiterIdle
    /\ MonitorIdle

\* the onFlush calls of a step get the time and the cause of the step
Stamp(B, by, handle) ==
    mediaGroups.flushedAt \o
       [j \in 1..(Len(B.flushed) - Len(mediaGroups.flushedAt)) |->
           [at |-> mediaGroups.now, by |-> by, handle |-> handle]]

\* setTimeout(() => this.flush(key), this.delayMs): the timer armed by the
\* tryBuffer call numbered handle is due delayMs after the call
Due(handle) == mediaGroups.arrived[handle].at + DEFAULT_DELAY_MS

MBTryBuffer(key, mediaUrl, isImage) ==
    /\ mediaGroups.calls < MaxBurst
    /\ LET event == mediaGroups.calls + 1
           r == MediaGroupTryBuffer(mediaGroups.self, key, event, mediaUrl,
                                    isImage, event)
           i == MediaGroupIndex(mediaGroups.self, key)
       IN  mediaGroups' =
              [mediaGroups EXCEPT
                 !.self = r.self,
                 !.calls = event,
                 !.arrived = Append(@,
                     [at |-> mediaGroups.now, key |-> key, isImage |-> isImage,
                      mediaUrl |-> mediaUrl,
                      entry |-> IF ~isImage THEN 0
                                ELSE IF i = 0 THEN event
                                ELSE mediaGroups.self.buffer[i].event]),
                 !.flushedAt = Stamp(r.self, "tryBuffer", 0)]
    /\ UNCHANGED <<containerVars, limiterVars, monitorVars, voiceWaiters, claimed,
                   fetchCall, policyCall, mentionCall, mediaCall, convMaps, inbound>>

MBFlush(key) ==
    /\ LET B == MediaGroupFlush(mediaGroups.self, key)
       IN  mediaGroups' =
              [mediaGroups EXCEPT !.self = B,
                                  !.flushedAt = Stamp(B, "flush", 0)]
    /\ UNCHANGED <<containerVars, limiterVars, monitorVars, voiceWaiters, claimed,
                   fetchCall, policyCall, mentionCall, mediaCall, convMaps, inbound>>

\* an armed timer expires, when it is due: () => this.flush(key)
MBTimerFire(timer) ==
    /\ timer \in mediaGroups.self.timers
    /\ Due(timer.handle) <= mediaGroups.now
    /\ LET B == MediaGroupFlush(
                  [mediaGroups.self EXCEPT !.timers = @ \ {timer}], timer.key)
       IN  mediaGroups' =
              [mediaGroups EXCEPT !.self = B,
                                  !.flushedAt = Stamp(B, "timer", timer.handle)]
    /\ UNCHANGED <<containerVars, limiterVars, monitorVars, voiceWaiters, claimed,
                   fetchCall, policyCall, mentionCall, mediaCall, convMaps, inbound>>

MBDispose ==
    /\ LET B == MediaGroupDispose(mediaGroups.self)
       IN  mediaGroups' =
              [mediaGroups EXCEPT !.self = B,
                                  !.flushedAt = Stamp(B, "dispose", 0)]
    /\ UNCHANGED <<containerVars, limiterVars, monitorVars, voiceWaiters, claimed,
                   fetchCall, policyCall, mentionCall, mediaCall, convMaps, inbound>>

\* a millisecond passes, unless a timer is due: its callback runs first
MBTick ==
    /\ mediaGroups.now < MaxMediaTime
    /\ \A timer \in mediaGroups.self.timers : Due(timer.handle) > mediaGroups.now
    /\ mediaGroups' = [mediaGroups EXCEPT !.now = @ + 1]
    /\ UNCHANGED <<containerVars, limiterVars, monitorVars, voiceWaiters, claimed,
                   fetchCall, policyCall, mentionCall, mediaCall, convMaps, inbound>>

NextMediaBurst ==
    \/ \E key \in BurstKeys, mediaUrl \in BOOLEAN, isImage \in BOOLEAN :
          MBTryBuffer(key, mediaUrl, isImage)
    \/ \E key \in BurstKeys : MBFlush(key)
    \/ \E handle \in 1..MaxBurst, key \in BurstKeys :
          MBTimerFire([handle |-> handle, key |-> key])
    \/ MBDispose
    \/ MBTick

SpecMediaBurst == InitMediaBurst /\ [][NextMediaBurst]_vars

\* the tryBuffer calls whose image went into the entry of this event
ImagesOf(event) ==
    {ev \in 1..mediaGroups.calls : mediaGroups.arrived[ev].entry = event}

\* C22: every entry handed to onFlush has the first image of its burst as
\* its event and the urls of the images that followed, in arrival order, as
\* its extras; and when it is a timer that flushes the entry, this happens
\* delayMs after the last image was added to it, never earlier (through a
\* timer armed for an earlier image or for an earlier entry of the key).
C22_BurstFlushedOnce ==
    \A n \in 1..Len(mediaGroups.self.flushed) :
       LET entry == mediaGroups.self.flushed[n]
           extras == entry.extraMediaUrls
           images == ImagesOf(entry.event)
       IN  /\ entry.event \in images
           /\ \A ev \in images : ev >= entry.event /\ ev <= entry.timer
           /\ entry.timer \in images
           /\ Range(extras) = {ev \in images \ {entry.event} :
                                  mediaGroups.arrived[ev].mediaUrl}
           /\ \A i, j \in 1..Len(extras) : i < j => extras[i] < extras[j]
           /\ mediaGroups.flushedAt[n].by = "timer" =>
                 mediaGroups.flushedAt[n].at =
                    mediaGroups.arrived[entry.timer].at + DEFAULT_DELAY_MS

(***************************************************************************)
(* VoiceWaiter (voice-waiter module) and the copy of it inside the monitor *)
(* (waitForTranscription / resolveVoiceWaiter / the loop in stop()).       *)
(* V is [waiters, timers, resolved]: waiters is the Map in insertion       *)
(* order, as [id, w] where w numbers the promise and also names its timer; *)
(* timers the armed timers, each [w, id] with the messageId its callback   *)
(* closes over; resolved the calls made to the promises' resolve           *)
(* functions, in order.                                                    *)
(***************************************************************************)
MaxWaits == 3
VoiceIds == {"m1", "m2"}
Texts == {"hello", ""}

VoiceWaiterNew == [waiters |-> <<>>, timers |-> {}, resolved |-> <<>>]

VoiceWaiterIndex(V, messageId) ==
    IF \E i \in 1..Len(V.waiters) : V.waiters[i].id = messageId
    THEN CHOOSE i \in 1..Len(V.waiters) : V.waiters[i].id = messageId
    ELSE 0

\* waiter.resolve(text)
CallResolve(V, w, text, by) ==
    [V EXCEPT !.resolved = Append(@, [w |-> w, text |-> text, by |-> by])]

\* resolve(messageId, text); resolveVoiceWaiter in the monitor is the same code
VoiceWaiterResolve(V, messageId, text) ==
    LET i == VoiceWaiterIndex(V, messageId)
    IN  IF i = 0 THEN [self |-> V, ret |-> FALSE]
        ELSE LET w == V.waiters[i].w
             IN  [self |-> CallResolve(
                             [V EXCEPT !.timers = {t \in @ : t.w # w},
                                       !.waiters = RemoveAt(@, i)],
                             w, text, "resolve"),
                  ret |-> TRUE]

\* cancel(messageId) with the timeout left armed
VoiceWaiterCancelKeepTimer(V, messageId) ==
    LET i == VoiceWaiterIndex(V, messageId)
    IN  IF i = 0 THEN V
        ELSE CallResolve([V EXCEPT !.waiters = RemoveAt(@, i)],
                         V.waiters[i].w, "", "cancel")

\* cancel(messageId)
VoiceWaiterCancel(V, messageId) ==
    LET i == VoiceWaiterIndex(V, messageId)
    IN  IF i = 0 THEN V
        ELSE LET w == V.waiters[i].w
             IN  CallResolve([V EXCEPT !.timers = {t \in @ : t.w # w},
                                       !.waiters = RemoveAt(@, i)],
                             w, "", "cancel")

\* this.waiters.set(messageId, { resolve, timer }) after setTimeout
VoiceWaiterSet(V, messageId, w) ==
    LET i == VoiceWaiterIndex(V, messageId)
        entry == [id |-> messageId, w |-> w]
    IN  [V EXCEPT !.timers = @ \cup {[w |-> w, id |-> messageId]},
                  !.waiters = IF i = 0 THEN Append(@, entry)
                              ELSE [@ EXCEPT ![i] = entry]]

\* wait(messageId): cancels the waiter the id has, then registers promise w
VoiceWaiterWait(V, messageId, w) ==
    VoiceWaiterSet(VoiceWaiterCancel(V, messageId), messageId, w)

\* waitForTranscription(messageId) in the monitor: registers, cancels nothing
WaitForTranscription(V, messageId, w) == VoiceWaiterSet(V, messageId, w)

\* the timeout callback of promise w: this.waiters.delete(messageId); resolve("")
VoiceWaiterTimeout(V, timer) ==
    LET i == VoiceWaiterIndex(V, timer.id)
    IN  CallResolve([V EXCEPT !.timers = @ \ {timer},
                              !.waiters = IF i = 0 THEN @ ELSE RemoveAt(@, i)],
                    timer.w, "", "timeout")

\* dispose(), and the loop over voiceWaiters in the monitor's stop()
RECURSIVE VoiceWaiterDispose(_)
VoiceWaiterDispose(V) ==
    IF V.waiters = <<>> THEN V
    ELSE LET w == Head(V.waiters).w
         IN  VoiceWaiterDispose(
               CallResolve([V EXCEPT !.timers = {t \in @ : t.w # w},
                                     !.waiters = Tail(@)],
                           w, "", "dispose"))

\* get pending
VoiceWaiterPending(V) == Len(V.waiters)

\* voiceWaiters is [impl, self, made, last]: which of the two copies runs,
\* the object, the number of promises made, and the last call
\* [op, id, text, before, calls, ret], where before is the map and calls the
\* number of resolve-function calls made before it
InitVoiceWaiter ==
    /\ \E impl \in {"class", "monitor"} :
          voiceWaiters = [impl |-> impl, self |-> VoiceWaiterNew, made |-> 0,
                          last |-> [op |-> "new", id |-> "", text |-> "",
                                    before |-> <<>>, calls |-> 0,
                                    ret |-> FALSE]]
    /\ mediaGroups = NoCall
    /\ claimed = NoCall
    /\ fetchCall = NoCall
    /\ policyCall = NoCall
    /\ mentionCall = NoCall
    /\ mediaCall = NoCall
    /\ convMaps = NoCall
    /\ inbound = NoCall
    /\ ContainersIdle
    /\ LimiterIdle
    /\ MonitorIdle

VWLast(op, messageId, text, ret) ==
    [op |-> op, id |-> messageId, text |-> text,
     before |-> voiceWaiters.self.waiters,
     calls |-> Len(voiceWaiters.self.resolved), ret |-> ret]

VWWait(messageId) ==
    /\ voiceWaiters.made < MaxWaits
    /\ LET w == voiceWaiters.made + 1
       IN  voiceWaiters' =
              [voiceWaiters EXCEPT
                 !.self = IF voiceWaiters.impl = "class"
                          THEN VoiceWaiterWait(@, messageId, w)
                          ELSE WaitForTranscription(@, messageId, w),
                 !.made = w,
                 !.last = VWLast("wait", messageId, "", FALSE)]
    /\ UNCHANGED <<containerVars, limiterVars, monitorVars, mediaGroups, claimed,
                   fetchCall, policyCall, mentionCall, mediaCall, convMaps, inbound>>

VWResolve(messageId, text) ==
    /\ LET r == VoiceWaiterResolve(voiceWaiters.self, messageId, text)
       IN  voiceWaiters' =
              [voiceWaiters EXCEPT
                 !.self = r.self,
                 !.last = VWLast("resolve", messageId, text, r.ret)]
    /\ UNCHANGED <<containerVars, limiterVars, monitorVars, mediaGroups, claimed,
                   fetchCall, policyCall, mentionCall, mediaCall, convMaps, inbound>>

\* the monitor's copy has no cancel
VWCancel(messageId) ==
    /\ voiceWaiters.impl = "class"
    /\ voiceWaiters' =
          [voiceWaiters EXCEPT
             !.self = VoiceWaiterCancel(@, messageId),
             !.last = VWLast("cancel", messageId, "", FALSE)]
    /\ UNCHANGED <<containerVars, limiterVars, monitorVars, mediaGroups, claimed,
                   fetchCall, policyCall, mentionCall, mediaCall, convMaps, inbound>>

VWTimeout(timer) ==
    /\ timer \in voiceWaiters.self.timers
    /\ voiceWaiters' =
          [voiceWaiters EXCEPT
             !.self = VoiceWaiterTimeout(@, timer),
             !.last = VWLast("timeout", timer.id, "", FALSE)]
    /\ UNCHANGED <<containerVars, limiterVars, monitorVars, mediaGroups, claimed,
                   fetchCall, policyCall, mentionCall, mediaCall, convMaps, inbound>>

VWDispose ==
    /\ voiceWaiters' =
          [voiceWaiters EXCEPT
             !.self = VoiceWaiterDispose(@),
             !.last = VWLast("dispose", "", "", FALSE)]
    /\ UNCHANGED <<containerVars, limiterVars, monitorVars, mediaGroups, claimed,
                   fetchCall, policyCall, mentionCall, mediaCall, convMaps, inbound>>

NextVoiceWaiter ==
    \/ \E messageId \in VoiceIds : VWWait(messageId)
    \/ \E messageId \in VoiceIds, text \in Texts : VWResolve(messageId, text)
    \/ \E messageId \in VoiceIds : VWCancel(messageId)
    \/ \E w \in 1..MaxWaits, messageId \in VoiceIds :
          VWTimeout([w |-> w, id |-> messageId])
    \/ VWDispose

SpecVoiceWaiter == InitVoiceWaiter /\ [][NextVoiceWaiter]_vars

\* the calls made to the resolve function of promise w
ResolveCalls(w) ==
    {i \in 1..Len(voiceWaiters.self.resolved) : voiceWaiters.self.resolved[i].w = w}

\* C12: the resolve function of every waiter is called at most once, and
\* not yet called exactly while its timeout is armed (so it is called once
\* in the end); a waiter held in the map is unresolved; the one call is made
\* with the text of resolve() or with "" by cancel, dispose or the timeout;
\* resolve(id, text) returns true exactly when the map held a waiter for id,
\* which that call resolves with text, and otherwise returns false and
\* resolves nothing.
C12_ResolvedOnce ==
    LET V == voiceWaiters.self
        last == voiceWaiters.last
        before == [waiters |-> last.before]
        i == VoiceWaiterIndex(before, last.id)
    IN  /\ \A w \in 1..voiceWaiters.made :
             /\ Cardinality(ResolveCalls(w)) <= 1
             /\ ResolveCalls(w) = {} <=> \E t \in V.timers : t.w = w
        /\ \A k \in 1..Len(V.waiters) : ResolveCalls(V.waiters[k].w) = {}
        /\ \A k \in 1..Len(V.resolved) :
             /\ V.resolved[k].w \in 1..voiceWaiters.made
             /\ V.resolved[k].by # "resolve" => V.resolved[k].text = ""
        /\ last.op = "resolve" =>
             /\ last.ret = (i # 0)
             /\ last.ret =>
                  /\ Len(V.resolved) = last.calls + 1
                  /\ Last(V.resolved) = [w |-> last.before[i].w,
                                         text |-> last.text, by |-> "resolve"]
             /\ ~last.ret => Len(V.resolved) = last.calls

\* resolve() returned true for a waiter, and false for an id whose waiter
\* had timed out, while another waiter was cancelled by a second wait()
C12_Witness ==
    /\ voiceWaiters.impl = "class"
    /\ voiceWaiters.last.op = "resolve"
    /\ ~voiceWaiters.last.ret
    /\ \E a, b, c \in 1..Len(voiceWaiters.self.resolved) :
          /\ voiceWaiters.self.resolved[a].by = "resolve"
          /\ voiceWaiters.self.resolved[a].text = "hello"
          /\ voiceWaiters.self.resolved[b].by = "timeout"
          /\ voiceWaiters.self.resolved[c].by = "cancel"

POLICY_DEDUP_CAP == 2000
MaxClaims == 4
Accounts == {"acct1", "acct2", "acct3"}
ClaimIds == {"msg1", "msg2"}

\* crossAccountDedup(msgId) that claims without recording
CrossAccountClaimNoRecord(processed, msgId) ==
    [self |-> processed, ret |-> TRUE]

\* crossAccountDedup(msgId) -> [self, ret]
CrossAccountClaim(processed, msgId) ==
    IF MapHas(processed.map, msgId)
    THEN [self |-> processed, ret |-> FALSE]
    ELSE [self |-> BoundedMapSet(processed, msgId, TRUE), ret |-> TRUE]

\* claimed is [processed, inbox, log]: the shared map, per account the ids
\* of the events it received and has not yet claimed, in arrival order, and
\* the calls made so far as [account, id, ret]
InitClaim ==
    /\ claimed = [processed |-> BoundedMapNew(POLICY_DEDUP_CAP),
                  inbox |-> [a \in Accounts |-> <<>>],
                  log |-> <<>>]
    /\ mediaGroups = NoCall
    /\ voiceWaiters = NoCall
    /\ fetchCall = NoCall
    /\ policyCall = NoCall
    /\ mentionCall = NoCall
    /\ mediaCall = NoCall
    /\ convMaps = NoCall
    /\ inbound = NoCall
    /\ ContainersIdle
    /\ LimiterIdle
    /\ MonitorIdle

ClaimsStarted ==
    Len(claimed.log) + Cardinality({<<a, i>> \in Accounts \X (1..MaxClaims) :
                                       i <= Len(claimed.inbox[a])})

\* the server delivers the event msgId to the monitor of account a
ClaimReceive(a, msgId) ==
    /\ ClaimsStarted < MaxClaims
    /\ claimed' = [claimed EXCEPT !.inbox[a] = Append(@, msgId)]
    /\ UNCHANGED <<containerVars, limiterVars, monitorVars, mediaGroups,
                   voiceWaiters, fetchCall, policyCall, mentionCall, mediaCall, convMaps, inbound>>

\* the monitor of account a reaches the claim for its oldest event
ClaimCall(a) ==
    /\ claimed.inbox[a] # <<>>
    /\ LET msgId == Head(claimed.inbox[a])
           r == CrossAccountClaim(claimed.processed, msgId)
       IN  claimed' = [processed |-> r.self,
                       inbox |-> [claimed.inbox EXCEPT ![a] = Tail(@)],
                       log |-> Append(claimed.log,
                                      [account |-> a, id |-> msgId, ret |-> r.ret])]
    /\ UNCHANGED <<containerVars, limiterVars, monitorVars, mediaGroups,
                   voiceWaiters, fetchCall, policyCall, mentionCall, mediaCall, convMaps, inbound>>

NextClaim ==
    \/ \E a \in Accounts, msgId \in ClaimIds : ClaimReceive(a, msgId)
    \/ \E a \in Accounts : ClaimCall(a)

SpecClaim == InitClaim /\ [][NextClaim]_vars

ClaimCalls(msgId) == {i \in 1..Len(claimed.log) : claimed.log[i].id = msgId}

DEFAULT_RETRIES == 2
RETRY_BASE_MS == 500
TRANSIENT_STATUSES == {429, 502, 503, 504}
MaxRetries == 2

Digits == <<"0", "1", "2", "3", "4", "5", "6", "7", "8", "9">>
IsDigit(c) == \E i \in 1..10 : Digits[i] = c
DigitValue(c) == (CHOOSE i \in 1..10 : Digits[i] = c) - 1
NaN == [nan |-> TRUE, n |-> 0]

\* the value of a run of digits
RECURSIVE Decimal(_)
Decimal(s) ==
    IF s = <<>> THEN 0
    ELSE 10 * Decimal(SubSeq(s, 1, Len(s) - 1)) + DigitValue(s[Len(s)])

\* the longest prefix of s made of digits
RECURSIVE DigitPrefix(_)
DigitPrefix(s) ==
    IF s # <<>> /\ IsDigit(Head(s)) THEN <<Head(s)>> \o DigitPrefix(Tail(s))
    ELSE <<>>

\* parseInt(s, 10): leading white space, an optional sign, then as many
\* digits as there are; whatever follows them is ignored; NaN without digits
RECURSIVE ParseInt(_)
ParseInt(s) ==
    IF s # <<>> /\ Head(s) = " " THEN ParseInt(Tail(s))
    ELSE LET signed == s # <<>> /\ Head(s) \in {"-", "+"}
             digits == DigitPrefix(IF signed THEN Tail(s) ELSE s)
         IN  IF digits = <<>> THEN NaN
             ELSE [nan |-> FALSE,
                   n |-> IF signed /\ Head(s) = "-" THEN 0 - Decimal(digits)
                         ELSE Decimal(digits)]

\* res.headers.get("retry-after"): null when the header is absent
NoHeader == [has |-> FALSE, value |-> <<>>]
Header(value) == [has |-> TRUE, value |-> value]
RetryAfterHeaders ==
    {NoHeader, Header(<<>>), Header(<<"3">>), Header(<<"0">>),
     Header(<<"4", "0">>), Header(<<"-", "3">>), Header(<<"x">>),
     Header(<<"3", ".", "5">>), Header(<<"3", "s">>)}

Statuses == {200, 400, 429, 500, 503}
NoError == [ctor |-> "undefined", name |-> "", words |-> {}]
Errors ==
    {[ctor |-> "DOMException", name |-> "AbortError", words |-> {}],
     [ctor |-> "DOMException", name |-> "TimeoutError", words |-> {}],
     [ctor |-> "TypeError", name |-> "TypeError", words |-> {"fetch"}],
     [ctor |-> "TypeError", name |-> "TypeError", words |-> {}],
     [ctor |-> "Error", name |-> "Error", words |-> {"socket"}]}
Response(status, retryAfter) ==
    [kind |-> "response", status |-> status, retryAfter |-> retryAfter,
     err |-> NoError]
Failure(err) ==
    [kind |-> "error", status |-> 0, retryAfter |-> NoHeader, err |-> err]
Outcomes ==
    {Response(st, h) : st \in Statuses, h \in RetryAfterHeaders}
        \cup {Failure(e) : e \in Errors}

\* init: retries and retryOn given or not; a given retryOn is the set of
\* statuses it accepts
FetchInits ==
    [hasRetries : {TRUE}, retries : -1..MaxRetries,
     hasRetryOn : BOOLEAN, retryOn : {{500}}]
        \cup [hasRetries : {FALSE}, retries : {0},
              hasRetryOn : BOOLEAN, retryOn : {{500}}]

DefaultRetryOn(status) == status \in TRANSIENT_STATUSES

\* init?.retryOn ?? defaultRetryOn
RetryOn(init, status) ==
    IF init.hasRetryOn THEN status \in init.retryOn ELSE DefaultRetryOn(status)

\* (init?.retries ?? DEFAULT_RETRIES) + 1
MaxAttempts(init) ==
    (IF init.hasRetries THEN init.retries ELSE DEFAULT_RETRIES) + 1

\* isTransientError with every TypeError taken as a network error
IsTransientErrorAnyTypeError(err) ==
    \/ err.ctor = "DOMException" /\ err.name = "AbortError"
    \/ err.ctor = "TypeError"

NetworkWords == {"fetch", "network", "econnr", "etimedout", "enotfound", "socket"}

IsTransientError(err) ==
    \/ err.ctor = "DOMException" /\ err.name = "AbortError"
    \/ err.ctor = "TypeError" /\ err.words \cap NetworkWords # {}

Backoff(attempt) == RETRY_BASE_MS * 2 ^ (attempt - 1)

\* the delay of lines 64-68 without the 30 s cap
RetryDelayUncapped(retryAfter, attempt) ==
    LET parsedRetryAfter ==
            IF retryAfter.has /\ retryAfter.value # <<>>
            THEN ParseInt(retryAfter.value) ELSE NaN
    IN  IF ~parsedRetryAfter.nan /\ parsedRetryAfter.n > 0
        THEN parsedRetryAfter.n * 1000
        ELSE Backoff(attempt)

\* delayMs of lines 64-68
RetryDelay(retryAfter, attempt) ==
    LET parsedRetryAfter ==
            IF retryAfter.has /\ retryAfter.value # <<>>
            THEN ParseInt(retryAfter.value) ELSE NaN
    IN  IF ~parsedRetryAfter.nan /\ parsedRetryAfter.n > 0
        THEN Min(parsedRetryAfter.n * 1000, 30000)
        ELSE Backoff(attempt)

Pending == [kind |-> "pending", res |-> Response(0, NoHeader), err |-> NoError]

\* line 73 with a retriable status turned into a failure
ResultOfResponseOrFail(init, res) ==
    IF RetryOn(init, res.status)
    THEN [kind |-> "throw", res |-> Response(0, NoHeader),
          err |-> [ctor |-> "Error", name |-> "Error", words |-> {}]]
    ELSE [kind |-> "return", res |-> res, err |-> NoError]

\* return res (line 73)
ResultOfResponse(init, res) == [kind |-> "return", res |-> res, err |-> NoError]

\* throw err (line 80)
ResultOfError(err) == [kind |-> "throw", res |-> Response(0, NoHeader), err |-> err]

\* F is [init, attempt, outcomes, delays, lastError, result]: the loop
\* variable, what each attempt gave, what each sleep waited, and how the
\* call ended.  One iteration of the loop body, attempt's outcome given:
FetchWithRetryStep(F, outcome) ==
    LET attempt == F.attempt
        seen == [F EXCEPT !.outcomes = Append(@, outcome)]
        again(delayMs) == [seen EXCEPT !.delays = Append(@, delayMs),
                                       !.attempt = attempt + 1]
    IN  IF outcome.kind = "response"
        THEN IF attempt < MaxAttempts(F.init) /\ RetryOn(F.init, outcome.status)
             THEN again(RetryDelay(outcome.retryAfter, attempt))
             ELSE [seen EXCEPT !.result = ResultOfResponse(F.init, outcome)]
        ELSE IF attempt < MaxAttempts(F.init) /\ IsTransientError(outcome.err)
             THEN [again(Backoff(attempt)) EXCEPT !.lastError = outcome.err]
             ELSE [seen EXCEPT !.lastError = outcome.err,
                               !.result = ResultOfError(outcome.err)]

InitFetch ==
    /\ \E init \in FetchInits :
          fetchCall = [init |-> init, attempt |-> 1, outcomes |-> <<>>,
                       delays |-> <<>>, lastError |-> NoError,
                       result |-> Pending]
    /\ mediaGroups = NoCall
    /\ voiceWaiters = NoCall
    /\ claimed = NoCall
    /\ policyCall = NoCall
    /\ mentionCall = NoCall
    /\ mediaCall = NoCall
    /\ convMaps = NoCall
    /\ inbound = NoCall
    /\ ContainersIdle
    /\ LimiterIdle
    /\ MonitorIdle

\* fetchWithTimeout settles and the loop body runs up to its next await
FWRAttempt(outcome) ==
    /\ fetchCall.result = Pending
    /\ fetchCall.attempt <= MaxAttempts(fetchCall.init)
    /\ fetchCall' = FetchWithRetryStep(fetchCall, outcome)
    /\ UNCHANGED <<containerVars, limiterVars, monitorVars, mediaGroups,
                   voiceWaiters, claimed, policyCall, mentionCall, mediaCall, convMaps, inbound>>

\* the loop condition fails: throw lastError (line 84)
FWRLoopEnd ==
    /\ fetchCall.result = Pending
    /\ fetchCall.attempt > MaxAttempts(fetchCall.init)
    /\ fetchCall' = [fetchCall EXCEPT !.result = ResultOfError(fetchCall.lastError)]
    /\ UNCHANGED <<containerVars, limiterVars, monitorVars, mediaGroups,
                   voiceWaiters, claimed, policyCall, mentionCall, mediaCall, convMaps, inbound>>

NextFetch ==
    \/ \E outcome \in Outcomes : FWRAttempt(outcome)
    \/ FWRLoopEnd

SpecFetch == InitFetch /\ [][NextFetch]_vars

\* the retries the call was given, 2 when it was given none
RetriesAsked ==
    IF fetchCall.init.hasRetries THEN fetchCall.init.retries ELSE 2

\* what the contract calls a retriable status and a transient error
RetriableOutcome(o) ==
    /\ o.kind = "response"
    /\ IF fetchCall.init.hasRetryOn THEN o.status \in fetchCall.init.retryOn
       ELSE o.status \in {429, 502, 503, 504}

TransientOutcome(o) ==
    /\ o.kind = "error"
    /\ \/ o.err.name = "AbortError" /\ o.err.ctor = "DOMException"
       \/ /\ o.err.ctor = "TypeError"
          /\ \E word \in o.err.words : word \in NetworkWords

\* C14: the call makes at most retries+1 attempts; attempt k+1 is made
\* exactly when k < retries+1 and attempt k gave a retriable status or a
\* transient error; a response with any other status is returned by the
\* attempt that got it, an error that is not transient is rethrown by it.
C14_RetryRule ==
    LET n == Len(fetchCall.outcomes)
    IN  /\ n <= RetriesAsked + 1
        /\ \A k \in 1..n :
              LET o == fetchCall.outcomes[k]
                  next == k < n \/ fetchCall.result = Pending
              IN  /\ next <=> /\ k < RetriesAsked + 1
                              /\ RetriableOutcome(o) \/ TransientOutcome(o)
                  /\ o.kind = "response" /\ ~RetriableOutcome(o) =>
                        /\ k = n
                        /\ fetchCall.result = [kind |-> "return", res |-> o,
                                               err |-> NoError]
                  /\ o.kind = "error" /\ ~TransientOutcome(o) =>
                        /\ k = n
                        /\ fetchCall.result.kind = "throw"
                        /\ fetchCall.result.err = o.err

\* a 503, then a network TypeError, then a 400 that ends the call
C14_Witness ==
    /\ Len(fetchCall.outcomes) = 3
    /\ fetchCall.outcomes[1].status = 503
    /\ fetchCall.outcomes[2].err.words = {"fetch"}
    /\ fetchCall.outcomes[3].status = 400
    /\ fetchCall.result.kind = "return"

IsIntegerText(s) ==
    /\ s # <<>>
    /\ \A i \in 1..Len(s) : IsDigit(s[i])

\* C16 as stated: the delay before attempt k+1 is min(N*1000, 30000) when
\* attempt k gave a retriable status with a Retry-After header that is an
\* integer N > 0, and 500 * 2^(k-1) in every other retried case.
C16_RetryDelay ==
    \A k \in 1..Len(fetchCall.delays) :
        LET o == fetchCall.outcomes[k]
            integer == /\ o.kind = "response"
                       /\ o.retryAfter.has
                       /\ IsIntegerText(o.retryAfter.value)
                       /\ Decimal(o.retryAfter.value) > 0
        IN  fetchCall.delays[k] =
               IF integer
               THEN Min(Decimal(o.retryAfter.value) * 1000, 30000)
               ELSE 500 * 2 ^ (k - 1)

\* the integer a text begins with, as [has, n]: an optional sign and the
\* digits that follow it, whatever comes after them
LeadingInteger(s) ==
    LET signed == s # <<>> /\ Head(s) \in {"-", "+"}
        digits == DigitPrefix(IF signed THEN Tail(s) ELSE s)
    IN  [has |-> digits # <<>>,
         n |-> IF signed /\ Head(s) = "-" THEN 0 - Decimal(digits)
               ELSE Decimal(digits)]

\* C16, amended: N is the integer the Retry-After value begins with; the
\* delay is min(N*1000, 30000) when there is one and N > 0, whatever follows
\* the digits, and 500 * 2^(k-1) in every other retried case.
C16_RetryDelayLeadingInteger ==
    \A k \in 1..Len(fetchCall.delays) :
        LET o == fetchCall.outcomes[k]
            lead == LeadingInteger(o.retryAfter.value)
        IN  fetchCall.delays[k] =
               IF o.kind = "response" /\ o.retryAfter.has /\ lead.has /\ lead.n > 0
               THEN Min(lead.n * 1000, 30000)
               ELSE 500 * 2 ^ (k - 1)

\* a Retry-After of 40 s waited 30 s, then a Retry-After of 0 waited the
\* second backoff step
C16_Witness ==
    /\ fetchCall.delays = <<30000, 1000>>
    /\ fetchCall.outcomes[1].retryAfter = Header(<<"4", "0">>)
    /\ fetchCall.outcomes[2].retryAfter = Header(<<"0">>)

(***************************************************************************)
(* The access gates on drawn inputs: checkDmPolicy / checkGroupPolicy of   *)
(* the policy module and the gate inside processMessage, called with the   *)
(* same config, sender and owner flag.                                     *)
(***************************************************************************)
MaxList == 2
PolicySenders == {<<"a">>, <<"b">>}
PolicyEntries == {<<"a">>, <<"b">>, <<"*">>, <<" ", "*">>, <<"a", " ">>}
PolicyLists ==
    {NoList} \cup
    {[has |-> TRUE, list |-> l] :
        l \in UNION {[1..n -> PolicyEntries] : n \in 0..MaxList}}
DmPolicies == {"open", "allowlist", "disabled", Undefined}
GroupPolicies == {"mention", "open", "disabled", Undefined}

\* policyCall is [op, config, senderId, isOwner, ret, passes]: op is
\* "dm?" or "group?" while the message drawn waits at the gate, "dm" or
\* "group" once it was decided
InitPolicy ==
    /\ \E allowFrom \in PolicyLists, senderId \in PolicySenders,
          isOwner \in BOOLEAN :
          \/ \E policy \in DmPolicies :
                policyCall = [op |-> "dm?",
                              config |-> [dmPolicy |-> policy,
                                          allowFrom |-> allowFrom],
                              senderId |-> senderId, isOwner |-> isOwner,
                              ret |-> "", passes |-> FALSE]
          \/ \E policy \in GroupPolicies :
                policyCall = [op |-> "group?",
                              config |-> [groupPolicy |-> policy,
                                          groupAllowFrom |-> allowFrom],
                              senderId |-> senderId, isOwner |-> isOwner,
                              ret |-> "", passes |-> FALSE]
    /\ mediaGroups = NoCall
    /\ voiceWaiters = NoCall
    /\ claimed = NoCall
    /\ fetchCall = NoCall
    /\ mentionCall = NoCall
    /\ mediaCall = NoCall
    /\ convMaps = NoCall
    /\ inbound = NoCall
    /\ ContainersIdle
    /\ LimiterIdle
    /\ MonitorIdle

\* the direct message reaches the gate
PolicyDm ==
    /\ policyCall.op = "dm?"
    /\ policyCall' =
          [policyCall EXCEPT
             !.op = "dm",
             !.ret = CheckDmPolicy(policyCall.config, policyCall.senderId,
                                   policyCall.isOwner),
             !.passes = DmPolicyPasses(policyCall.config, policyCall.senderId,
                                       policyCall.isOwner)]
    /\ UNCHANGED <<containerVars, limiterVars, monitorVars, mediaGroups,
                   voiceWaiters, claimed, fetchCall, mentionCall, mediaCall, convMaps, inbound>>

\* the group message reaches the gate
PolicyGroup ==
    /\ policyCall.op = "group?"
    /\ policyCall' =
          [policyCall EXCEPT
             !.op = "group",
             !.ret = CheckGroupPolicy(policyCall.config, policyCall.senderId,
                                      policyCall.isOwner),
             !.passes = GroupPolicyPasses(policyCall.config,
                                          policyCall.senderId,
                                          policyCall.isOwner)]
    /\ UNCHANGED <<containerVars, limiterVars, monitorVars, mediaGroups,
                   voiceWaiters, claimed, fetchCall, mentionCall, mediaCall, convMaps, inbound>>

NextPolicy ==
    \/ PolicyDm
    \/ PolicyGroup

SpecPolicy == InitPolicy /\ [][NextPolicy]_vars

\* the list (missing = empty) has an entry that is exactly this text
Contains(allowFrom, text) ==
    allowFrom.has /\ \E i \in 1..Len(allowFrom.list) : allowFrom.list[i] = text

\* the list has an entry that is "*" with nothing but blanks around it
ContainsPaddedStar(allowFrom) ==
    /\ allowFrom.has
    /\ \E i \in 1..Len(allowFrom.list) :
          LET e == allowFrom.list[i]
          IN  \E k \in 1..Len(e) :
                 /\ e[k] = "*"
                 /\ \A j \in 1..Len(e) : j # k => e[j] = " "

\* the DM decision the contract gives, wildcard being what counts as "*"
DmDecision(call, wildcard) ==
    LET list == call.config.allowFrom
    IN  IF call.isOwner THEN "allow"
        ELSE IF call.config.dmPolicy = "disabled" THEN "deny"
        ELSE IF call.config.dmPolicy \in {"open", Undefined} THEN "allow"
        ELSE IF ~list.has \/ Len(list.list) = 0 THEN "deny"
        ELSE IF Contains(list, call.senderId) \/ wildcard THEN "allow"
        ELSE "deny"

\* C17 as stated: owner -> allow; otherwise disabled -> deny, open or unset
\* -> allow, allowlist -> allow iff the list contains the sender id exactly
\* or contains "*", an empty or missing list -> deny; the gate inside
\* processMessage lets the message through exactly on allow.
C17_DmGate ==
    policyCall.op = "dm" =>
        LET decision == DmDecision(policyCall,
                                   Contains(policyCall.config.allowFrom, <<"*">>))
        IN  /\ policyCall.ret = decision
            /\ policyCall.passes <=> decision = "allow"

\* C17, amended: the same table, with an entry counting as "*" also when
\* blanks surround the star (the sender id is compared exactly).
C17_DmGateTrimmedWildcard ==
    policyCall.op = "dm" =>
        LET decision == DmDecision(policyCall,
                                   ContainsPaddedStar(policyCall.config.allowFrom))
        IN  /\ policyCall.ret = decision
            /\ policyCall.passes <=> decision = "allow"

\* allowlist policy, a stranger, and a list whose only wildcard is " *"
C17_Witness ==
    /\ policyCall.op = "dm"
    /\ policyCall.config.dmPolicy = "allowlist"
    /\ policyCall.config.allowFrom.list = <<<<"b">>, <<" ", "*">>>>
    /\ policyCall.senderId = <<"a">>
    /\ ~policyCall.isOwner
    /\ policyCall.ret = "allow"
    /\ policyCall.passes

\* the group decision the contract gives
GroupDecision(call, wildcard) ==
    LET list == call.config.groupAllowFrom
    IN  IF call.config.groupPolicy = "disabled" THEN "deny"
        ELSE IF /\ list.has /\ Len(list.list) > 0
                /\ ~call.isOwner
                /\ ~Contains(list, call.senderId)
                /\ ~wildcard
        THEN "deny"
        ELSE IF call.config.groupPolicy = "open" THEN "allow"
        ELSE "record-only"

\* C18 as stated: disabled -> deny; otherwise, with a non-empty group
\* allowlist, a non-owner whose id is not in the list is denied unless the
\* list contains "*"; every remaining case gives allow under open and
\* record-only under mention or unset; the gate inside processMessage stops
\* the message exactly on deny.
C18_GroupGate ==
    policyCall.op = "group" =>
        LET decision ==
                GroupDecision(policyCall,
                              Contains(policyCall.config.groupAllowFrom, <<"*">>))
        IN  /\ policyCall.ret = decision
            /\ policyCall.passes <=> decision # "deny"

\* C18, amended: the same table, with an entry counting as "*" also when
\* blanks surround the star.
C18_GroupGateTrimmedWildcard ==
    policyCall.op = "group" =>
        LET decision ==
                GroupDecision(policyCall,
                              ContainsPaddedStar(policyCall.config.groupAllowFrom))
        IN  /\ policyCall.ret = decision
            /\ policyCall.passes <=> decision # "deny"

\* policy unset, a non-owner who is not listed, and a list whose only
\* wildcard is " *"
C18_Witness ==
    /\ policyCall.op = "group"
    /\ policyCall.config.groupPolicy = Undefined
    /\ policyCall.config.groupAllowFrom.list = <<<<"b">>, <<" ", "*">>>>
    /\ policyCall.senderId = <<"a">>
    /\ ~policyCall.isOwner
    /\ policyCall.ret = "record-only"
    /\ policyCall.passes

(***************************************************************************)
(* detectAndStripMention (policy module).  Texts are sequences of          *)
(* one-character strings; names are made of letters, for which the         *)
(* pattern `@${name}\s*` matches the name literally.                       *)
(***************************************************************************)
MaxText == 4
TextChars == {"@", "b", "B", " "}
MentionTexts == UNION {[1..n -> TextChars] : n \in 0..MaxText}
MentionNameLists ==
    {<< <<"b">> >>, << <<"B">> >>, << <<"b", "b">>, <<"b">> >>}

\* String.prototype.toLowerCase
LowerChar(c) == IF c = "B" THEN "b" ELSE c
ToLowerCase(s) == [i \in 1..Len(s) |-> LowerChar(s[i])]

\* String.prototype.includes
Includes(s, part) ==
    \E i \in 0..(Len(s) - Len(part)) : SubSeq(s, i + 1, i + Len(part)) = part

\* the pattern matches at the start of s, case ignored
MatchesAt(s, pattern) ==
    /\ Len(s) >= Len(pattern)
    /\ ToLowerCase(SubSeq(s, 1, Len(pattern))) = ToLowerCase(pattern)

\* \s* : the white space s starts with is consumed
RECURSIVE DropSpaces(_)
DropSpaces(s) ==
    IF s # <<>> /\ Head(s) = " " THEN DropSpaces(Tail(s)) ELSE s

\* s.replace(new RegExp(`@${name}\\s*`, "gi"), ""): one scan from the left,
\* every match removed, the scan going on after the match
RECURSIVE ReplaceMention(_, _)
ReplaceMention(s, name) ==
    LET pattern == <<"@">> \o name
    IN  IF s = <<>> THEN <<>>
        ELSE IF MatchesAt(s, pattern)
        THEN ReplaceMention(DropSpaces(SubSeq(s, Len(pattern) + 1, Len(s))), name)
        ELSE <<Head(s)>> \o ReplaceMention(Tail(s), name)

\* for (const name of mentionNames) stripped = stripped.replace(...)
RECURSIVE ReplaceMentions(_, _)
ReplaceMentions(s, mentionNames) ==
    IF mentionNames = <<>> THEN s
    ELSE ReplaceMentions(ReplaceMention(s, Head(mentionNames)), Tail(mentionNames))

DetectAndStripMention(text, mentionNames) ==
    LET lower == ToLowerCase(text)
        mentioned == \E i \in 1..Len(mentionNames) :
                        Includes(lower, <<"@">> \o ToLowerCase(mentionNames[i]))
    IN  IF ~mentioned THEN [mentioned |-> FALSE, stripped |-> text]
        ELSE [mentioned |-> TRUE,
              stripped |-> Trim(ReplaceMentions(text, mentionNames))]

\* mentionCall is [op, text, mentionNames, ret]
InitMention ==
    /\ \E text \in MentionTexts, mentionNames \in MentionNameLists :
          mentionCall = [op |-> "call", text |-> text,
                         mentionNames |-> mentionNames,
                         ret |-> [mentioned |-> FALSE, stripped |-> <<>>]]
    /\ mediaGroups = NoCall
    /\ voiceWaiters = NoCall
    /\ claimed = NoCall
    /\ fetchCall = NoCall
    /\ policyCall = NoCall
    /\ mediaCall = NoCall
    /\ convMaps = NoCall
    /\ inbound = NoCall
    /\ ContainersIdle
    /\ LimiterIdle
    /\ MonitorIdle

MentionReturn ==
    /\ mentionCall.op = "call"
    /\ mentionCall' =
          [mentionCall EXCEPT
             !.op = "return",
             !.ret = DetectAndStripMention(mentionCall.text,
                                           mentionCall.mentionNames)]
    /\ UNCHANGED <<containerVars, limiterVars, monitorVars, mediaGroups,
                   voiceWaiters, claimed, fetchCall, policyCall, mediaCall, convMaps, inbound>>

NextMention == MentionReturn

SpecMention == InitMention /\ [][NextMention]_vars

\* C19: when the call reports mentioned = true, the stripped text has no
\* part "@<name>" for any name of the list, letter case ignored; when it
\* reports mentioned = false, the stripped text is the text given.
C19_NoMentionLeft ==
    mentionCall.op = "return" =>
        IF mentionCall.ret.mentioned
        THEN \A i \in 1..Len(mentionCall.mentionNames) :
                ~Includes(ToLowerCase(mentionCall.ret.stripped),
                          ToLowerCase(<<"@">> \o mentionCall.mentionNames[i]))
        ELSE mentionCall.ret.stripped = mentionCall.text

(***************************************************************************)
(* isSafeMediaUrl and the image download of processMessage (monitor.ts).   *)
(* A URL text is a sequence of tokens: a scheme with its "//", host names, *)
(* "@" closing a userinfo part, a port, "/" and path text.                 *)
(***************************************************************************)
MaxExtras == 2
Schemes == {"https://", "http://"}
HostNames == {"srv", "SRV", "evil", "cdn"}
MediaUrls ==
    {<<>>,
     <<"/", "media">>,
     <<"/", "/", "evil", "/", "media">>,
     <<"https://", "srv", "/", "media">>,
     <<"http://", "srv", ":8080", "/", "media">>,
     <<"https://", "SRV", "/", "media">>,
     <<"https://", "evil", "/", "media">>,
     <<"https://", "srv", "@", "evil", "/", "media">>,
     <<"https://", "evil", "/", "srv">>,
     <<"media">>,
     <<"https://">>}
\* the urls a media group adds to the first image's
ExtraUrls ==
    {<<"/", "media">>,
     <<"https://", "SRV", "/", "media">>,
     <<"https://", "evil", "/", "media">>,
     <<"media">>}
MediaServerUrls == {<<"https://", "srv">>, <<"http://", "srv", ":8080">>, <<"srv">>}
\* account.config.baseUrl ?? account.config.serverUrl ?? ""
MediaBaseUrls == {<<>>, <<"https://", "srv">>, <<"https://", "cdn">>}

\* the part of a URL between the scheme and the first "/"
RECURSIVE Authority(_)
Authority(s) ==
    IF s = <<>> \/ Head(s) = "/" THEN <<>>
    ELSE <<Head(s)>> \o Authority(Tail(s))

\* what follows the last "@" of the authority
RECURSIVE AfterUserinfo(_)
AfterUserinfo(s) ==
    IF \E i \in 1..Len(s) : s[i] = "@" THEN AfterUserinfo(Tail(s)) ELSE s

LowerHost(h) == IF h = "SRV" THEN "srv" ELSE h

\* new URL(url): [ok, hostname]; ok = FALSE when the constructor throws
NewURL(url) ==
    IF url = <<>> \/ Head(url) \notin Schemes
    THEN [ok |-> FALSE, hostname |-> ""]
    ELSE LET hostport == AfterUserinfo(Authority(Tail(url)))
         IN  IF hostport = <<>> \/ Head(hostport) \notin HostNames
             THEN [ok |-> FALSE, hostname |-> ""]
             ELSE [ok |-> TRUE, hostname |-> LowerHost(Head(hostport))]

\* isSafeMediaUrl that accepts every URL that parses
IsSafeMediaUrlAnyHost(url, server) ==
    IF url = <<>> THEN FALSE
    ELSE IF Head(url) = "/" THEN TRUE
    ELSE NewURL(url).ok /\ NewURL(server).ok

IsSafeMediaUrl(url, server) ==
    IF url = <<>> THEN FALSE
    ELSE IF Head(url) = "/" THEN TRUE
    ELSE IF ~NewURL(url).ok \/ ~NewURL(server).ok THEN FALSE
    ELSE NewURL(url).hostname = NewURL(server).hostname

\* mediaUrl of processMessage: a relative rawMediaUrl gets the base in front
ResolveMediaUrl(rawMediaUrl, base) ==
    IF rawMediaUrl # <<>> /\ Head(rawMediaUrl) = "/"
    THEN base \o rawMediaUrl ELSE rawMediaUrl

\* the urls handed to core.channel.media.fetchRemoteMedia, in order
ImageDownloads(contentType, mediaUrl, extraMediaUrls, server) ==
    IF contentType = "image" /\ mediaUrl # <<>>
    THEN SelectSeq(<<mediaUrl>> \o extraMediaUrls,
                   LAMBDA u : IsSafeMediaUrl(u, server))
    ELSE <<>>

\* mediaCall is [op, server, base, contentType, rawMediaUrl, extraMediaUrls,
\* mediaUrl, fetched]
InitMediaUrl ==
    /\ \E server \in MediaServerUrls, base \in MediaBaseUrls,
          contentType \in {"image", "text"}, rawMediaUrl \in MediaUrls,
          extraMediaUrls \in UNION {[1..n -> ExtraUrls] : n \in 0..MaxExtras} :
          mediaCall = [op |-> "call", server |-> server, base |-> base,
                       contentType |-> contentType,
                       rawMediaUrl |-> rawMediaUrl,
                       extraMediaUrls |-> extraMediaUrls,
                       mediaUrl |-> <<>>, fetched |-> <<>>]
    /\ mediaGroups = NoCall
    /\ voiceWaiters = NoCall
    /\ claimed = NoCall
    /\ fetchCall = NoCall
    /\ policyCall = NoCall
    /\ mentionCall = NoCall
    /\ convMaps = NoCall
    /\ inbound = NoCall
    /\ ContainersIdle
    /\ LimiterIdle
    /\ MonitorIdle

\* processMessage reaches the image download
MediaDownload ==
    /\ mediaCall.op = "call"
    /\ LET mediaUrl == ResolveMediaUrl(mediaCall.rawMediaUrl, mediaCall.base)
       IN  mediaCall' =
              [mediaCall EXCEPT
                 !.op = "downloaded",
                 !.mediaUrl = mediaUrl,
                 !.fetched = ImageDownloads(mediaCall.contentType, mediaUrl,
                                            mediaCall.extraMediaUrls,
                                            mediaCall.server)]
    /\ UNCHANGED <<containerVars, limiterVars, monitorVars, mediaGroups,
                   voiceWaiters, claimed, fetchCall, policyCall, mentionCall,
                   convMaps, inbound>>

NextMediaUrl == MediaDownload

SpecMediaUrl == InitMediaUrl /\ [][NextMediaUrl]_vars

\* what the contract accepts: a non-empty URL that begins with "/" or that
\* parses with the hostname the server URL parses with
Acceptable(url, server) ==
    /\ url # <<>>
    /\ \/ url[1] = "/"
       \/ /\ NewURL(url).ok
          /\ NewURL(server).ok
          /\ NewURL(url).hostname = NewURL(server).hostname

HostIsLocal(wsUrl) == Len(wsUrl.host) = 1 /\ wsUrl.host[1] \in LocalHosts

\* C21: when the WebSocket url derived from account.serverUrl has the scheme
\* ws and a host other than localhost, 127.0.0.1 and [::1], the monitor never
\* creates a socket, so that no auth frame with the API key is ever sent, and
\* its run is over.
C21_CleartextRefused ==
    (WsUrl(serverUrl).scheme = "ws" /\ ~HostIsLocal(WsUrl(serverUrl)))
        => (sockets = <<>> /\ ws = 0 /\ running = "resolved")

\* C25: the delay of the reconnect scheduled by the n-th close in a row
\* (no authenticated event in between) is min(1000 * 2^(n-1), 60000) ms; the
\* delay the next close will use is min(1000 * 2^n, 60000), which is 1000
\* after an authenticated event; backoff is never below 1000 or above 60000.
C25_BackoffDoubles ==
    /\ backoff >= 1000
    /\ backoff <= 60000
    /\ backoff = Min(1000 * 2^history.closes, 60000)
    /\ history.closes > 0 =>
          history.delay = Min(1000 * 2^(history.closes - 1), 60000)

\* after an authenticated event, seven closes in a row have scheduled
\* reconnects; the last delay was the cap, which 1000 * 2^6 exceeds
C25_Witness ==
    /\ history.auths # <<>>
    /\ history.closes = 7
    /\ history.delay = 60000
    /\ reconnectTimer = "armed"

(***************************************************************************)
(* Properties of the account monitor: catch-up                             *)
(***************************************************************************)
\* the messages the monitor has submitted to the pipeline or dropped
Handled ==
    {runs[i].id : i \in 1..Len(runs)}
       \cup {dispatchLog[i].id : i \in 1..Len(dispatchLog)}
       \cup {d.id : d \in dropLog}

\* the missed messages that this step of an authenticated handler drops
\* because activeDispatches has reached MAX_CONCURRENT
CapDropsOfCatchUp ==
    IF authHandlers' = authHandlers THEN {}
    ELSE {d.id : d \in {x \in dropLog' \ dropLog : x.why = "cap"}} \ Handled

\* C26: when catch-up drops a missed message because the cap is reached,
\* lastSeenMessageId of its channel stays before the message, so that the
\* catch-up of the next reconnect fetches it and submits it again.
C26_CapDropIsRefetched ==
    [][\A id \in CapDropsOfCatchUp :
          lastSeenMessageId'[srvMsgs[id].channel_id] < id]_vars

\* C27: when fetchConversations of an authenticated handler has answered,
\* the handler of the first authenticated event ends without catch-up, and
\* the handler of every later one goes on to fetch the missed messages of
\* the first conversation that has a lastSeenMessageId, whatever became of
\* the requests of earlier handlers; and after the fetch for one channel,
\* failed or not, it goes on to the next such conversation.
C27_CatchUpOnEveryReconnect ==
    [][\A s \in SocketIds :
          /\ (/\ authHandlers[s].stage = "convs"
              /\ authHandlers'[s].stage \notin {"convs", "failed"}) =>
                IF s = history.auths[1]
                THEN authHandlers'[s].stage = "done"
                ELSE authHandlers'[s] = CatchUpFrom(lastSeenMessageId, 1)
          /\ (/\ authHandlers[s].stage = "catchup"
              /\ authHandlers'[s] # authHandlers[s]) =>
                authHandlers'[s] =
                   CatchUpFrom(lastSeenMessageId', authHandlers[s].idx + 1)]_vars

(***************************************************************************)
(* monitor.ts: pairToChannel and groupChannelIds                           *)
(*                                                                         *)
(* convMaps holds the two collections of one monitor, the stage of the      *)
(* authenticated handler that is running (one at a time), whether a         *)
(* fetchPairList of a pair:created handler is awaited, and what the most    *)
(* recent /conversations response listed.                                   *)
(***************************************************************************)
MaxConvs == 2

ConvPairIds == {"p1", "p2"}
ConvChannelIds == {"c1", "c2"}

\* a conversation of a /conversations response; pair_id "" is an absent one
ConvRecords ==
    [type : {"pair"}, pair_id : ConvPairIds \cup {""}, channel_id : ConvChannelIds]
        \cup [type : {"group"}, pair_id : {""}, channel_id : ConvChannelIds]

\* the server lists a pair once
DistinctPairs(response) ==
    \A i, j \in 1..Len(response) :
        (i # j /\ response[i].pair_id # "") => response[i].pair_id # response[j].pair_id

ConvResponses ==
    {r \in UNION {[1..n -> ConvRecords] : n \in 0..MaxConvs} : DistinctPairs(r)}

PairLists ==
    {r \in UNION {[1..n -> [pair_id : ConvPairIds, channel_id : ConvChannelIds]] :
                     n \in 0..MaxConvs} : DistinctPairs(r)}

\* pairToChannel as the set of its entries, at most one for a pair_id
PairHas(pairs, pairId) == \E e \in pairs : e.pair_id = pairId

PairSet(pairs, pairId, channelId) ==
    {e \in pairs : e.pair_id # pairId}
        \cup {[pair_id |-> pairId, channel_id |-> channelId]}

\* what a response lists: its pairs that have a pair_id, its groups' channels
ResponsePairs(response) ==
    {[pair_id |-> response[i].pair_id, channel_id |-> response[i].channel_id] :
        i \in {j \in 1..Len(response) :
                  response[j].type = "pair" /\ response[j].pair_id # ""}}

ResponseGroups(response) ==
    {response[i].channel_id :
        i \in {j \in 1..Len(response) : response[j].type = "group"}}

Listed(response) ==
    [pairs |-> ResponsePairs(response), groups |-> ResponseGroups(response)]

InitConversations ==
    /\ ContainersIdle
    /\ LimiterIdle
    /\ MonitorIdle
    /\ convMaps = [pairToChannel |-> {}, groupChannelIds |-> {},
                   handler |-> "idle", pairFetch |-> FALSE, fetched |-> FALSE,
                   response |-> Listed(<<>>), last |-> [op |-> "new", gone |-> {}]]
    /\ mediaGroups = NoCall
    /\ voiceWaiters = NoCall
    /\ claimed = NoCall
    /\ fetchCall = NoCall
    /\ policyCall = NoCall
    /\ mentionCall = NoCall
    /\ mediaCall = NoCall
    /\ inbound = NoCall

\* authenticated: for (const conv of conversations) { set / add }, from conv i
RECURSIVE FillMaps(_, _, _)
FillMaps(maps, conversations, i) ==
    IF i > Len(conversations) THEN maps
    ELSE LET conv == conversations[i]
             withPair ==
                 IF conv.type = "pair" /\ conv.pair_id # ""
                 THEN [maps EXCEPT !.pairToChannel =
                                       PairSet(@, conv.pair_id, conv.channel_id)]
                 ELSE maps
             withGroup ==
                 IF conv.type = "group"
                 THEN [withPair EXCEPT !.groupChannelIds = @ \cup {conv.channel_id}]
                 ELSE withPair
         IN  FillMaps(withGroup, conversations, i + 1)

\* the loop without the two clear() calls before it
RebuildMapsNoClear(maps, conversations) == FillMaps(maps, conversations, 1)

\* authenticated: pairToChannel.clear(); groupChannelIds.clear(); the loop
RebuildMaps(maps, conversations) ==
    FillMaps([pairToChannel |-> {}, groupChannelIds |-> {}], conversations, 1)

MapsOf(cm) ==
    [pairToChannel |-> cm.pairToChannel, groupChannelIds |-> cm.groupChannelIds]

\* the entries of the two collections, tagged
EntriesOf(maps) ==
    {<<"pair", e>> : e \in maps.pairToChannel}
        \cup {<<"group", c>> : c \in maps.groupChannelIds}

ConvUnchanged ==
    UNCHANGED <<containerVars, limiterVars, monitorVars, mediaGroups,
                voiceWaiters, claimed, fetchCall, policyCall, mentionCall,
                mediaCall, inbound>>

\* an authenticated event arrives: the handler runs up to
\* await fetchConversations(account)
ConvAuthenticated ==
    /\ convMaps.handler = "idle"
    /\ convMaps' = [convMaps EXCEPT !.handler = "convs",
                                    !.last = [op |-> "authenticated", gone |-> {}]]
    /\ ConvUnchanged

\* fetchConversations answers: the collections are rebuilt; the catch-up
\* block that follows awaits REST calls (awaits) or ends at once
ConvFetched(conversations, awaits) ==
    /\ convMaps.handler = "convs"
    /\ LET maps == RebuildMaps(MapsOf(convMaps), conversations)
       IN  convMaps' =
               [convMaps EXCEPT
                   !.pairToChannel = maps.pairToChannel,
                   !.groupChannelIds = maps.groupChannelIds,
                   !.handler = IF awaits THEN "catchup" ELSE "idle",
                   !.fetched = TRUE,
                   !.response = Listed(conversations),
                   !.last = [op |-> "rebuilt",
                             gone |-> EntriesOf(MapsOf(convMaps)) \ EntriesOf(maps)]]
    /\ ConvUnchanged

\* fetchConversations throws: catch (err) { runtime.error(...) }
ConvFetchFailed ==
    /\ convMaps.handler = "convs"
    /\ convMaps' = [convMaps EXCEPT !.handler = "idle",
                                    !.last = [op |-> "failed", gone |-> {}]]
    /\ ConvUnchanged

\* the catch-up block ends: isFirstConnect = false
ConvCatchUpEnds ==
    /\ convMaps.handler = "catchup"
    /\ convMaps' = [convMaps EXCEPT !.handler = "idle",
                                    !.last = [op |-> "ended", gone |-> {}]]
    /\ ConvUnchanged

\* group:member_added with payload.channel_id chId ("" is an absent one)
ConvMemberAdded(chId) ==
    /\ convMaps' =
           [convMaps EXCEPT
               !.groupChannelIds = IF chId # "" THEN @ \cup {chId} ELSE @,
               !.last = [op |-> "group:member_added", gone |-> {}]]
    /\ convMaps' # convMaps
    /\ ConvUnchanged

\* pair:created with a pair_id: the handler runs up to await fetchPairList
ConvPairCreated ==
    /\ ~convMaps.pairFetch
    /\ convMaps' = [convMaps EXCEPT !.pairFetch = TRUE,
                                    !.last = [op |-> "pair:created", gone |-> {}]]
    /\ ConvUnchanged

\* for (const pair of pairs) if (!pairToChannel.has(pair.pair_id)) set, from i
RECURSIVE AddNewPairs(_, _, _)
AddNewPairs(pairToChannel, pairs, i) ==
    IF i > Len(pairs) THEN pairToChannel
    ELSE AddNewPairs(IF PairHas(pairToChannel, pairs[i].pair_id)
                     THEN pairToChannel
                     ELSE PairSet(pairToChannel, pairs[i].pair_id,
                                  pairs[i].channel_id),
                     pairs, i + 1)

\* fetchPairList answers (ok) or throws
ConvPairList(pairs, ok) ==
    /\ convMaps.pairFetch
    /\ convMaps' =
           [convMaps EXCEPT
               !.pairFetch = FALSE,
               !.pairToChannel = IF ok THEN AddNewPairs(@, pairs, 1) ELSE @,
               !.last = [op |-> "pairs", gone |-> {}]]
    /\ ConvUnchanged

NextConversations ==
    \/ ConvAuthenticated
    \/ \E conversations \in ConvResponses, awaits \in BOOLEAN :
          ConvFetched(conversations, awaits)
    \/ ConvFetchFailed
    \/ ConvCatchUpEnds
    \/ \E chId \in ConvChannelIds \cup {""} : ConvMemberAdded(chId)
    \/ ConvPairCreated
    \/ \E pairs \in PairLists, ok \in BOOLEAN : ConvPairList(pairs, ok)

SpecConversations == InitConversations /\ [][NextConversations]_vars

HoldsResponse(cm) ==
    /\ cm.pairToChannel = cm.response.pairs
    /\ cm.groupChannelIds = cm.response.groups

C29_CrossAccountBounded == Len(crossAccountProcessed) <= CROSS_ACCOUNT_DEDUP_CAP

(***************************************************************************)
(* Properties of the access gate: the owner                                *)
(***************************************************************************)
\* C30 as stated: a message of the configured owner passes the access gate of
\* the pipeline, in the DM branch and in the group branch, for every policy
\* and every allowlist.
C30_OwnerNeverDropped ==
    (policyCall.op \in {"dm", "group"} /\ policyCall.isOwner) => policyCall.passes

\* C30 amended: a message of the configured owner passes the DM branch for
\* every dmPolicy and allowFrom, and passes the group branch for every
\* groupAllowFrom exactly when groupPolicy is not "disabled".
C30_OwnerPassesUnlessGroupDisabled ==
    (policyCall.op \in {"dm", "group"} /\ policyCall.isOwner) =>
        (policyCall.passes <=>
            ~(/\ policyCall.op = "group"
              /\ policyCall.config.groupPolicy = "disabled"))

\* the owner passed a group allowlist that does not list them, and a DM
\* policy that is disabled
C30_Witness ==
    /\ policyCall.op \in {"dm", "group"}
    /\ policyCall.isOwner
    /\ policyCall.passes
    /\ \/ /\ policyCall.op = "group"
          /\ ~IsEmptyList(policyCall.config.groupAllowFrom)
          /\ ~IsWildcard(policyCall.config.groupAllowFrom)
          /\ ~ListsSender(policyCall.config.groupAllowFrom, policyCall.senderId)
       \/ /\ policyCall.op = "dm"
          /\ policyCall.config.dmPolicy = "disabled"

(***************************************************************************)
(* Properties of the account monitor: the dispatch counter                 *)
(***************************************************************************)
\* C37: every step changes activeDispatches by exactly the number of
\* pipeline runs it starts minus the number it ends (a run that returns at a
\* gate, one whose dispatch completes, one that throws), the counter is
\* never negative, and it is 0 exactly when no run is in flight.
C37_CounterMatchesRuns ==
    /\ [](activeDispatches >= 0 /\ (runs = <<>> <=> activeDispatches = 0))
    /\ [][activeDispatches' - activeDispatches = Len(runs') - Len(runs)]_vars

\* a run was dispatched, another returned at a gate, and the counter is back
\* to 0
C37_Witness ==
    /\ activeDispatches = 0
    /\ runs = <<>>
    /\ dispatchLog # <<>>
    /\ \E d \in dropLog : d.why \in {"echo", "claimed", "processed", "rate"}

(***************************************************************************)
(* Properties of the account monitor: keepalive                            *)
(***************************************************************************)
\* C34: at most one pong timeout is armed at any time, and only while an
\* authenticated socket of the monitor has not closed; a pong timeout that
\* fires leaves no socket open (the current one is force-closed); a socket
\* that closes while the monitor is not stopped arms the reconnect timer;
\* and a step that handles a pong or a close leaves no pong timeout armed.
C34_PongTimeout ==
    /\ [](/\ history.pongs \in 0..1
          /\ pongTimeout = "armed" <=> history.pongs = 1
          /\ pongTimeout = "armed" =>
                \E s \in 1..Len(sockets) :
                    sockets[s].authed /\ sockets[s].state # "closed")
    /\ [][/\ (pongTimeout = "armed" /\ pongTimeout' = "fired") =>
                \A s \in 1..Len(sockets') :
                    sockets'[s].state \notin {"connecting", "open"}
          /\ \A s \in 1..Len(sockets) :
                (sockets[s].state # "closed" /\ sockets'[s].state = "closed") =>
                    /\ pongTimeout' # "armed"
                    /\ (~stopped /\ ~abortSignal) => reconnectTimer' = "armed"
          /\ (pongTimeout = "armed" /\ pongTimeout' = "null") =>
                history'.pongs = 0]_vars

\* a pong timeout fired on an authenticated socket, which is closing
C34_Witness ==
    /\ pongTimeout = "fired"
    /\ ws # 0
    /\ sockets[ws].authed
    /\ sockets[ws].state = "closing"
    /\ ~stopped

(***************************************************************************)
(* Properties of the account monitor: subscribe frames                     *)
(***************************************************************************)
\* C38: no subscribe frame is written to a socket that has not received
\* authenticated, whatever handler of an earlier socket is still awaiting a
\* REST fetch when the socket changes.
C38_SubscribeAfterAuthenticated ==
    \A s \in 1..Len(sockets) : ~sockets[s].early

(***************************************************************************)
(* Properties of the account monitor: timers after the monitor has ended   *)
(***************************************************************************)
\* C36: once the monitor has stopped, or has exited without connecting, no
\* timer of it is armed: the rate-limit cleanup interval (armed from the
\* start until stop() runs), the ping interval, the pong timeout, the
\* reconnect timers and the media-group flush timers.
C36_NoTimerAfterExit ==
    (stopped \/ running = "resolved") =>
        /\ stopped
        /\ ~pingInterval
        /\ pongTimeout # "armed"
        /\ reconnectTimer # "armed"
        /\ orphanReconnects = 0
        /\ mediaGroupBuffer = <<>>

(***************************************************************************)
(* monitor.ts: the gates of processMessage in two account monitors of one  *)
(* process.  crossAccountProcessed is module-level and shared;             *)
(* processedMessageIds and senderTimestamps belong to each monitor.  The   *)
(* events are direct messages of one user (no echo), delivered to either   *)
(* monitor any number of times (live, and again by catch-up).  claimed is  *)
(* [cross, proc, sts, now, calls, out, pruned]: the shared map, per        *)
(* account its dedup set and its sender timestamps, Date.now(), the calls  *)
(* made, per account and message id the ways its calls ended, and per id   *)
(* how often its claim was pruned.                                         *)
(***************************************************************************)
MaxGateCalls == 5
MaxGateIds == 4
MaxGateTime == 2
GateAccounts == {"acct1", "acct2"}
GateIds == 1..MaxGateIds
GateSender == <<"u", "1">>

\* account.config of the two accounts: the first lets only another user in
GateConfig(a) ==
    IF a = "acct1"
    THEN [dmPolicy |-> "allowlist", allowFrom |-> [has |-> TRUE, list |-> <<<<"u", "9">>>>]]
    ELSE [dmPolicy |-> "open", allowFrom |-> NoList]

\* the text of message id after trim(): the second message has none
GateBody(id) == IF id = 2 THEN <<>> ELSE <<"h", "i">>

GateEnded(G, a, id, how) == [G EXCEPT !.out[a][id] = @ \cup {how}]

\* processMessage with the access gate in front of the cross-account claim
GateProcessMessageGateFirst(G, a, id, t) ==
    IF ~DmPolicyPasses(GateConfig(a), GateSender, FALSE)
    THEN GateEnded(G, a, id, "policy")
    ELSE LET x == CrossAccountDedup(G.cross, id, t)
         IN  IF ~x.ret THEN GateEnded(G, a, id, "claimed")
             ELSE GateEnded([G EXCEPT !.cross = x.cross, !.pruned = Bump(@, x.pruned)],
                            a, id, "dispatch")

\* processMessage of account a's monitor on the event of message id, from
\* the cross-account claim to the test of the body
GateProcessMessage(G, a, id, t) ==
    LET x == CrossAccountDedup(G.cross, id, t)
        G1 == [G EXCEPT !.cross = x.cross, !.pruned = Bump(@, x.pruned)]
    IN  IF ~x.ret THEN GateEnded(G1, a, id, "claimed")
        ELSE
        LET d == MarkProcessed(G1.proc[a], id)
            G2 == [G1 EXCEPT !.proc[a] = d.proc]
        IN  IF ~d.ret THEN GateEnded(G2, a, id, "processed")
            ELSE IF ~DmPolicyPasses(GateConfig(a), GateSender, FALSE)
            THEN GateEnded(G2, a, id, "policy")
            ELSE
            LET r == IsRateLimited(G2.sts[a], GateSender, t)
                G3 == [G2 EXCEPT !.sts[a] = r.sts]
            IN  IF r.ret THEN GateEnded(G3, a, id, "rate")
                ELSE IF GateBody(id) = <<>> THEN GateEnded(G3, a, id, "empty")
                ELSE GateEnded(G3, a, id, "dispatch")

InitGate ==
    /\ claimed = [cross |-> <<>>,
                  proc |-> [a \in GateAccounts |-> <<>>],
                  sts |-> [a \in GateAccounts |-> [s \in {GateSender} |-> <<>>]],
                  now |-> 0,
                  calls |-> 0,
                  out |-> [a \in GateAccounts |-> [id \in GateIds |-> {}]],
                  pruned |-> [id \in GateIds |-> 0]]
    /\ mediaGroups = NoCall
    /\ voiceWaiters = NoCall
    /\ fetchCall = NoCall
    /\ policyCall = NoCall
    /\ mentionCall = NoCall
    /\ mediaCall = NoCall
    /\ convMaps = NoCall
    /\ inbound = NoCall
    /\ ContainersIdle
    /\ LimiterIdle
    /\ MonitorIdle

\* the monitor of account a runs processMessage on the event of message id
GateMessage(a, id) ==
    /\ claimed.calls < MaxGateCalls
    /\ claimed' = [GateProcessMessage(claimed, a, id, claimed.now)
                      EXCEPT !.calls = @ + 1]
    /\ UNCHANGED <<containerVars, limiterVars, monitorVars, mediaGroups,
                   voiceWaiters, fetchCall, policyCall, mentionCall, mediaCall, convMaps, inbound>>

\* Date.now() advances
GateTick ==
    /\ claimed.now < MaxGateTime
    /\ claimed' = [claimed EXCEPT !.now = @ + 1]
    /\ UNCHANGED <<containerVars, limiterVars, monitorVars, mediaGroups,
                   voiceWaiters, fetchCall, policyCall, mentionCall, mediaCall, convMaps, inbound>>

NextGate ==
    \/ \E a \in GateAccounts, id \in GateIds : GateMessage(a, id)
    \/ GateTick

SpecGate == InitGate /\ [][NextGate]_vars

\* the ways a call ends after it took the claim without dispatching
GateDropsAfterClaim == {"processed", "policy", "rate", "empty"}

\* C40, as stated: when a monitor that claimed a message id dropped the
\* message, no other monitor ever dispatches that id.
C40_DropBlocksOthers ==
    \A a \in GateAccounts, id \in GateIds :
       claimed.out[a][id] \cap GateDropsAfterClaim # {} =>
          \A b \in GateAccounts \ {a} : "dispatch" \notin claimed.out[b][id]

\* C40, as the code has it: for as long as the claim of a message id has
\* not been pruned from the map, the calls made with that id by all
\* monitors together ended in one way other than "already claimed": the
\* first claimant dispatched it or dropped it, and nobody else got it.
C40_OneOutcomePerClaim ==
    \A id \in GateIds :
       claimed.pruned[id] = 0 =>
          Cardinality({<<a, how>> \in GateAccounts \X
                                        (GateDropsAfterClaim \cup {"dispatch"}) :
                          how \in claimed.out[a][id]}) <= 1

\* C40 witness: the first account claimed message 1 and dropped it at its
\* access gate, the second account then found the id claimed and its claim
\* was never pruned
C40_Witness ==
    /\ claimed.out["acct1"][1] = {"policy"}
    /\ claimed.out["acct2"][1] = {"claimed"}
    /\ claimed.pruned[1] = 0

(***************************************************************************)
(* monitor.ts: processMessage from the body to the end of the dispatch,    *)
(* for the events of one channel.  The events have distinct ids (an        *)
(* event's id is its position in the order observed), come from one user   *)
(* and pass the gates before the body.  inbound is                         *)
(*   cfg      what the monitor was given: isGroupChannel of the channel,   *)
(*            groupPolicy, historyLimit; and the kind of server            *)
(*   events   the message:new events observed, [content_type, text], and   *)
(*            for each of them the rawBody its run resolved, if any        *)
(*   act      activeDispatches                                             *)
(*   hist     groupHistories.get(channelId): entries [messageId, body]     *)
(*   waiters  the voiceWaiters map: the message ids waited for             *)
(*   runs     processMessage calls in flight: [id, stage, body, history],  *)
(*            stage "voice" (awaiting the transcription), "record"         *)
(*            (awaiting recordInboundSession) or "dispatch"                *)
(*   log      the agent dispatches started: [id, body, history]            *)
(*   heard    the voice:transcribed events observed: [id, text, act]       *)
(*   stopped                                                               *)
(***************************************************************************)
MaxInbound == 3
\* DEFAULT_GROUP_HISTORY_LIMIT is 20 in the source
HISTORY_LIMIT == 2
\* the literal body of a voice message without text
VoicePlaceholder == <<"(voice message)">>
NoBody == <<"(none)">>

\* legacy: the server announces a transcription with voice:transcribed
\* instead of message:update
InboundConfigs ==
    {[isGroupChannel |-> FALSE, groupPolicy |-> "open", historyLimit |-> HISTORY_LIMIT,
      legacy |-> FALSE],
     [isGroupChannel |-> FALSE, groupPolicy |-> "open", historyLimit |-> HISTORY_LIMIT,
      legacy |-> TRUE],
     [isGroupChannel |-> TRUE, groupPolicy |-> "mention", historyLimit |-> HISTORY_LIMIT,
      legacy |-> FALSE],
     [isGroupChannel |-> TRUE, groupPolicy |-> "mention", historyLimit |-> 0,
      legacy |-> FALSE],
     [isGroupChannel |-> TRUE, groupPolicy |-> "open", historyLimit |-> HISTORY_LIMIT,
      legacy |-> FALSE]}

\* texts: a plain one, one that mentions the bot, and a mention and nothing
\* else; a voice message arrives with white space for a text
InboundTexts == {<<"h">>, <<"@", "B", " ", "h">>, <<"@", "b">>}
InboundKinds ==
    {[content_type |-> "text", text |-> t] : t \in InboundTexts}
        \cup {[content_type |-> "voice", text |-> <<" ">>]}
\* texts of message:update and voice:transcribed events
TranscriptionTexts == {<<"h">>, <<"@", "B", " ", "h">>}

\* the mention pool: account.config.mentionNames lower-cased (none is
\* configured), the bot's display name "B" lower-cased, and "all"
MentionPool == ToLowerCase(<<>>) \o << ToLowerCase(<<"B">>) >> \o << <<"a", "l", "l">> >>

\* mentionNames.some(name => rawText.includes(`@${name}`))
IsMentioned(rawBody) ==
    \E i \in 1..Len(MentionPool) :
       Includes(ToLowerCase(rawBody), <<"@">> \o MentionPool[i])

\* recordPendingHistoryEntryIfEnabled: append, the oldest entries giving way
\* once the limit is exceeded
RecordPendingHistoryEntry(hist, entry, limit) ==
    IF limit <= 0 THEN hist
    ELSE LET added == Append(hist, entry)
         IN  IF Len(added) > limit
             THEN SubSeq(added, Len(added) - limit + 1, Len(added))
             ELSE added

\* clearHistoryEntriesIfEnabled
ClearHistoryEntries(hist, limit) == IF limit <= 0 THEN hist ELSE <<>>

\* rawBody of a voice event whose text or transcription is t
VoiceBody(t) == IF Trim(t) = <<>> THEN VoicePlaceholder ELSE Trim(t)

InboundResolved(I, id, rawBody) == [I EXCEPT !.events[id].raw = rawBody]

InboundEnded(I, id) == [I EXCEPT !.act = @ - 1, !.runs = {r \in @ : r.id # id}]

\* the run of event id goes on to await recordInboundSession, with the body
\* and the InboundHistory it will dispatch (the entries' message ids stand
\* for their senders and timestamps)
InboundToRecord(I, id, body) ==
    LET c == I.cfg
        inboundHistory == IF c.isGroupChannel /\ c.historyLimit > 0
                          THEN I.hist
                          ELSE <<>>
    IN  [I EXCEPT !.runs = {r \in @ : r.id # id} \cup
                     {[id |-> id, stage |-> "record", body |-> body,
                       history |-> inboundHistory]}]

\* the mention gate that records nothing for a message without a mention
MentionGateNoRecord(I, id, rawBody) ==
    IF rawBody = <<>> THEN InboundEnded(I, id)
    ELSE IF I.cfg.isGroupChannel /\ I.cfg.groupPolicy = "mention"
    THEN IF ~IsMentioned(rawBody) THEN InboundEnded(I, id)
         ELSE LET stripped == Trim(ReplaceMentions(rawBody, MentionPool))
              IN  IF stripped = <<>> THEN InboundEnded(I, id)
                  ELSE InboundToRecord(I, id, stripped)
    ELSE InboundToRecord(I, id, rawBody)

\* processMessage from `if (!rawBody) return` to its await of
\* recordInboundSession
MentionGate(I, id, rawBody) ==
    IF rawBody = <<>> THEN InboundEnded(I, id)
    ELSE IF I.cfg.isGroupChannel /\ I.cfg.groupPolicy = "mention"
    THEN IF ~IsMentioned(rawBody)
         THEN InboundEnded(
                 [I EXCEPT !.hist = RecordPendingHistoryEntry(
                                       @, [messageId |-> id, body |-> rawBody],
                                       I.cfg.historyLimit)],
                 id)
         ELSE LET stripped == Trim(ReplaceMentions(rawBody, MentionPool))
              IN  IF stripped = <<>> THEN InboundEnded(I, id)
                  ELSE InboundToRecord(I, id, stripped)
    ELSE InboundToRecord(I, id, rawBody)

\* processMessage on the event id, counted in activeDispatches, up to its
\* first await
InboundProcessMessage(I, id) ==
    LET e == I.events[id]
    IN  IF e.content_type = "voice" /\ Trim(e.text) = <<>>
        THEN [I EXCEPT !.waiters = @ \cup {id},
                       !.runs = @ \cup {[id |-> id, stage |-> "voice",
                                         body |-> <<>>, history |-> <<>>]}]
        ELSE LET rawBody == IF e.content_type = "voice" THEN VoiceBody(e.text)
                            ELSE Trim(e.text)
             IN  MentionGate(InboundResolved(I, id, rawBody), id, rawBody)

\* the transcription wait of event id ends with t: the run resumes
InboundTranscription(I, id, t) ==
    LET I1 == [I EXCEPT !.waiters = @ \ {id}]
    IN  MentionGate(InboundResolved(I1, id, VoiceBody(t)), id, VoiceBody(t))

InboundUnchanged ==
    UNCHANGED <<containerVars, limiterVars, monitorVars, mediaGroups,
                voiceWaiters, claimed, fetchCall, policyCall, mentionCall,
                mediaCall, convMaps>>

InitInbound ==
    /\ \E cfg \in InboundConfigs :
          inbound = [cfg |-> cfg, events |-> <<>>, act |-> 0, hist |-> <<>>,
                     waiters |-> {}, runs |-> {}, log |-> <<>>,
                     heard |-> {}, stopped |-> FALSE]
    /\ mediaGroups = NoCall
    /\ voiceWaiters = NoCall
    /\ claimed = NoCall
    /\ fetchCall = NoCall
    /\ policyCall = NoCall
    /\ mentionCall = NoCall
    /\ mediaCall = NoCall
    /\ convMaps = NoCall
    /\ ContainersIdle
    /\ LimiterIdle
    /\ MonitorIdle

\* handleWSEvent, message:new
InboundMessageNew(kind) ==
    /\ ~inbound.stopped
    /\ Len(inbound.events) < MaxInbound
    /\ LET id == Len(inbound.events) + 1
           I == [inbound EXCEPT !.events = Append(@, kind @@ [raw |-> NoBody])]
       IN  inbound' = IF I.act >= MAX_CONCURRENT THEN I
                      ELSE InboundProcessMessage([I EXCEPT !.act = @ + 1], id)
    /\ InboundUnchanged

\* handleWSEvent, message:update with a message_id and a text, for a message
\* that has a waiter (nothing happens for any other)
InboundMessageUpdate(id, t) ==
    /\ ~inbound.stopped
    /\ ~inbound.cfg.legacy
    /\ t # <<>>
    /\ id \in inbound.waiters
    /\ inbound' = InboundTranscription(inbound, id, t)
    /\ InboundUnchanged

\* the timer of waitForTranscription fires after VOICE_WAIT_MS
InboundVoiceTimeout(id) ==
    /\ id \in inbound.waiters
    /\ inbound' = InboundTranscription(inbound, id, <<>>)
    /\ InboundUnchanged

\* handleWSEvent, voice:transcribed: no branch of the handler takes it
InboundVoiceTranscribed(id, t) ==
    /\ ~inbound.stopped
    /\ inbound.cfg.legacy
    /\ id \in 1..Len(inbound.events)
    /\ inbound.events[id].content_type = "voice"
    /\ Trim(t) # <<>>
    /\ inbound.heard = {}
    /\ inbound' = [inbound EXCEPT
                      !.heard = @ \cup {[id |-> id, text |-> Trim(t), act |-> inbound.act]}]
    /\ InboundUnchanged

\* await recordInboundSession settles; when it resolves, the dispatch starts
InboundRecorded(id, ok) ==
    /\ \E r \in inbound.runs :
          /\ r.id = id
          /\ r.stage = "record"
          /\ inbound' =
                IF ok
                THEN [inbound EXCEPT
                        !.runs = (@ \ {r}) \cup {[r EXCEPT !.stage = "dispatch"]},
                        !.log = Append(@, [id |-> id, body |-> r.body,
                                           history |-> r.history])]
                ELSE InboundEnded(inbound, id)
    /\ InboundUnchanged

\* the dispatch settles: finally { clearHistoryEntriesIfEnabled }
InboundDispatched(id) ==
    /\ \E r \in inbound.runs : r.id = id /\ r.stage = "dispatch"
    /\ inbound' =
          InboundEnded(
             [inbound EXCEPT
                !.hist = IF inbound.cfg.isGroupChannel
                         THEN ClearHistoryEntries(@, inbound.cfg.historyLimit)
                         ELSE @],
             id)
    /\ InboundUnchanged

\* stop(): every voice waiter is resolved with "", in the order of the map;
\* the runs resume one after the other
RECURSIVE InboundResolveAll(_, _)
InboundResolveAll(I, id) ==
    IF id > Len(I.events) THEN I
    ELSE InboundResolveAll(IF id \in I.waiters THEN InboundTranscription(I, id, <<>>)
                           ELSE I,
                           id + 1)

InboundStop ==
    /\ ~inbound.stopped
    /\ inbound' = InboundResolveAll([inbound EXCEPT !.stopped = TRUE], 1)
    /\ InboundUnchanged

NextInbound ==
    \/ \E kind \in InboundKinds : InboundMessageNew(kind)
    \/ \E id \in 1..MaxInbound, t \in TranscriptionTexts : InboundMessageUpdate(id, t)
    \/ \E id \in 1..MaxInbound : InboundVoiceTimeout(id)
    \/ \E id \in 1..MaxInbound, t \in TranscriptionTexts : InboundVoiceTranscribed(id, t)
    \/ \E id \in 1..MaxInbound, ok \in BOOLEAN : InboundRecorded(id, ok)
    \/ \E id \in 1..MaxInbound : InboundDispatched(id)
    \/ InboundStop

SpecInbound == InitInbound /\ [][NextInbound]_vars

(***************************************************************************)
(* Properties of the body, mention and history steps                       *)
(***************************************************************************)
InMentionGroup ==
    /\ inbound.cfg.isGroupChannel
    /\ inbound.cfg.groupPolicy = "mention"
    /\ inbound.cfg.historyLimit > 0

\* the rawBody the run of event id has resolved in state I, NoBody if none
RawOf(I, id) == IF id \in 1..Len(I.events) THEN I.events[id].raw ELSE NoBody

\* the run of event id has ended in the step
RunEnded(id) ==
    /\ \E r \in inbound.runs : r.id = id
    /\ ~\E r \in inbound'.runs : r.id = id

C32_EmptyVoiceDropped ==
    \A k \in 1..Len(inbound.log) :
       RawOf(inbound, inbound.log[k].id) # VoicePlaceholder

\* C33: the agent dispatches of the events of the channel start in the
\* order in which the events were observed.
C33_DispatchInObservedOrder ==
    \A k1, k2 \in 1..Len(inbound.log) :
       k1 < k2 => inbound.log[k1].id < inbound.log[k2].id

\* C35: for every voice:transcribed event observed with a non-empty text
\* while the concurrency cap was not reached, a voice event carrying that
\* text has entered the pipeline.
C35_TranscribedEntersPipeline ==
    \A h \in inbound.heard :
       h.act < MAX_CONCURRENT =>
          \E id \in 1..Len(inbound.events) :
             /\ inbound.events[id].content_type = "voice"
             /\ Trim(inbound.events[id].text) = h.text

\* C39: an entry leaves the group's history only when the capacity evicts
\* it or when it is part of the InboundHistory of a dispatch that started.
C39_HistoryEntryConsumed ==
    [][\A e \in Range(inbound.hist) \ Range(inbound'.hist) :
          \/ \E k \in 1..Len(inbound'.log) : e \in Range(inbound'.log[k].history)
          \/ /\ Len(inbound'.hist) = inbound.cfg.historyLimit
             /\ Last(inbound'.hist) \notin Range(inbound.hist)]_vars
====
